---------------------------- MODULE Spec2Model ----------------------------
(***************************************************************************)
(* Blue Lotus backend: the webhook ingestion path (handleVapiWebhook),     *)
(* the job publisher (publishJob on the BullMQ queue 'ai-processing'),     *)
(* the tenant lookup (getBusinessByAssistantId) and the datastore tables   *)
(* `businesses` and `calls`.                                               *)
(*                                                                         *)
(* handleVapiWebhook is an async function.  Between two awaits it runs     *)
(* without interruption, so one handler execution is modelled as a         *)
(* process with three steps:                                               *)
(*   Receive*  : request.json(), the type and call checks and the tenant   *)
(*               lookup (the businesses table is never written by the      *)
(*               backend, so the lookup reads a constant table);           *)
(*   Insert*   : the awaited insert into `calls`;                          *)
(*   Publish*  : the awaited publishJob, followed by the response.         *)
(* Several handler executions interleave at these awaits.                  *)
(***************************************************************************)
EXTENDS Integers, Sequences, FiniteSets, TLC

(***************************************************************************)
(* Bounds of the model.                                                    *)
(***************************************************************************)
MaxRequests == 2
MaxTime == 1
MaxLabels == 4
MaxTenants == 3
MaxJobs == 2
MaxQueueTicks == 3
MaxActive == 1
MaxDays == 1
MaxIdLen == 3

Requests == 1..MaxRequests
Times == 0..MaxTime

(***************************************************************************)
(* Values.                                                                 *)
(***************************************************************************)
None == "none"

CallIds == {"c1", "c2"}

\* The businesses table the ingestion path runs against.  id is the primary
\* key and subdomain is UNIQUE; vapi_assistant_id carries no constraint, so
\* two rows may share a value.
businesses ==
  { [id |-> "demo-001", subdomain |-> "demo",   vapi_assistant_id |-> "asst_demo_12345"],
    [id |-> "biz-2",    subdomain |-> "acme",   vapi_assistant_id |-> "asst-2"],
    [id |-> "biz-3",    subdomain |-> "globex", vapi_assistant_id |-> "asst-dup"],
    [id |-> "biz-4",    subdomain |-> "initech", vapi_assistant_id |-> "asst-dup"] }

NoBusiness == [id |-> None, subdomain |-> None, vapi_assistant_id |-> None]

AssistantIds == {"asst_demo_12345", "asst-2", "asst-dup", "asst-unknown"}

EventTypes == {"call.ended", "end-of-call-report", "status-update"}

\* SQL NULL and JSON null, and a column or field that holds the value x.
NULL == [null |-> TRUE]
Value(x) == [value |-> x]

\* The analysis fields of a row of calls.
AnalysisFields ==
  {"sentiment_score", "products_mentioned", "issues_identified", "opportunity_value",
   "processed_at", "processing_version"}

\* Analysis values a call object may carry in a request body.
PayloadAnalysis ==
  [sentiment_score |-> Value(100), products_mentioned |-> Value(<<"crown">>),
   issues_identified |-> Value(<<"pricing">>), opportunity_value |-> Value(100),
   processed_at |-> Value(0), processing_version |-> Value("upstream")]

\* Request bodies.  body = "invalid" is a body request.json() rejects,
\* body = "null" is the JSON value null, body = "object" is a JSON object
\* with a type and, when hasCall, a call object; analysis is what the call
\* object carries under the names of the analysis fields, if anything;
\* signature is the X-Vapi-Signature header: absent, the one the webhook
\* secret gives for the body ("valid"), or another ("forged").
Payloads ==
  { [body |-> "invalid", type |-> None, hasCall |-> FALSE, id |-> None, assistantId |-> None,
      signature |-> "valid", analysis |-> NULL],
    [body |-> "null",    type |-> None, hasCall |-> FALSE, id |-> None, assistantId |-> None,
      signature |-> "valid", analysis |-> NULL] }
  \cup { [body |-> "object", type |-> t, hasCall |-> FALSE, id |-> None, assistantId |-> None,
      signature |-> "valid", analysis |-> NULL] :
           t \in EventTypes }
  \cup { [body |-> "object", type |-> t, hasCall |-> TRUE, id |-> c, assistantId |-> a,
           signature |-> "valid", analysis |-> NULL] :
           t \in EventTypes, c \in CallIds, a \in AssistantIds }

NoPayload == [body |-> None, type |-> None, hasCall |-> FALSE, id |-> None, assistantId |-> None,
      signature |-> "valid", analysis |-> NULL]

VARIABLES
  calls,     \* the calls table: a sequence of rows
  jobs,      \* the BullMQ queue 'ai-processing': job id -> job
  now,       \* Date.now(), in milliseconds
  req,       \* the handler executions: request -> position and locals
  tenants,   \* the businesses table: a set of rows
  res,       \* one tenant-resolution call: its inputs and its result
  stats,     \* one getQueueStats call: its progress and the value it returned
  source,    \* the request bodies the event source sends
  http       \* one request to /health or /queue/stats: position and response

vars == <<calls, jobs, now, req, tenants, res, stats, source, http>>

(***************************************************************************)
(* Tenant lookup.                                                          *)
(***************************************************************************)

\* Variant: an assistant id that resolves to no business falls back to the
\* demo business.
getBusinessByAssistantId_DemoFallback(assistantId) ==
  LET matches == {b \in tenants : b.vapi_assistant_id = assistantId}
  IN IF Cardinality(matches) = 1 THEN CHOOSE b \in matches : TRUE
     ELSE CHOOSE b \in tenants : b.id = "demo-001"

\* .eq('vapi_assistant_id', assistantId).single(): single() reports an error
\* unless exactly one row matches, and the error is turned into null.
getBusinessByAssistantId(assistantId) ==
  LET matches == {b \in tenants : b.vapi_assistant_id = assistantId}
  IN IF Cardinality(matches) = 1 THEN CHOOSE b \in matches : TRUE ELSE NoBusiness

(***************************************************************************)
(* Host names and extractSubdomain.                                        *)
(*                                                                         *)
(* A string is a sequence of tokens: a token is a label (a non-empty run   *)
(* of characters other than '.' and ':'), the dot or the colon.  The empty *)
(* string is <<>>; null is Null.                                           *)
(***************************************************************************)

Dot == "."
Colon == ":"
Null == <<"<null>">>

\* The string that consists of one label (the empty string for "").
Str(label) == IF label = "" THEN <<>> ELSE <<label>>

\* Labels joined by dots, as a string.
RECURSIVE JoinLabels(_)
JoinLabels(labels) ==
  IF Len(labels) = 0 THEN <<>>
  ELSE IF Len(labels) = 1 THEN Str(labels[1])
  ELSE Str(labels[1]) \o <<Dot>> \o JoinLabels(Tail(labels))

\* The Host header made of dot-separated labels and a port suffix.
HostString(labels, port) == JoinLabels(labels) \o port

\* String.prototype.split(separator): the pieces between the separators.
RECURSIVE Split(_, _)
Split(string, separator) ==
  IF \A i \in 1..Len(string) : string[i] # separator THEN <<string>>
  ELSE LET i == CHOOSE k \in 1..Len(string) :
                  /\ string[k] = separator
                  /\ \A m \in 1..(k - 1) : string[m] # separator
       IN <<SubSeq(string, 1, i - 1)>> \o Split(SubSeq(string, i + 1, Len(string)), separator)

ignoredSubdomains == {<<"www">>, <<"api">>, <<"admin">>, <<"app">>}

\* Variant: two parts are enough for a subdomain.
extractSubdomain_TwoParts(hostname) ==
  IF hostname = Null \/ hostname = <<>> THEN Null
  ELSE LET host == Split(hostname, Colon)[1]
       IN IF host = <<"localhost">> \/ host = <<"127", Dot, "0", Dot, "0", Dot, "1">>
          THEN Null
          ELSE LET parts == Split(host, Dot)
               IN IF Len(parts) < 2 THEN Null
                  ELSE IF parts[1] \in ignoredSubdomains THEN Null
                  ELSE parts[1]

extractSubdomain(hostname) ==
  IF hostname = Null \/ hostname = <<>> THEN Null
  ELSE LET host == Split(hostname, Colon)[1]
       IN IF host = <<"localhost">> \/ host = <<"127", Dot, "0", Dot, "0", Dot, "1">>
          THEN Null
          ELSE LET parts == Split(host, Dot)
               IN IF Len(parts) < 3 THEN Null
                  ELSE IF parts[1] \in ignoredSubdomains THEN Null
                  ELSE parts[1]

\* One call of a resolution function: its inputs (the Host header, built from
\* labels and a port suffix, the X-Business-ID header, the assistant id, and
\* whether the datastore answers the query) and its results.
IdleResolution ==
  [pc |-> "idle", fn |-> None, labels |-> <<>>, port |-> <<>>, host |-> Null,
   xBusinessId |-> Null, assistantId |-> None, dbOk |-> TRUE,
   subdomain |-> Null, business |-> NoBusiness, threw |-> FALSE]

\* getQueueStats has not been called: no count was asked for (next), no job
\* was counted (counted: the pairs of a job and the count it was part of),
\* no time went by since the call (elapsed, in milliseconds).
NoStats ==
  [result |-> None, next |-> 0, counted |-> {}, elapsed |-> 0,
   waiting |-> 0, active |-> 0, completed |-> 0, failed |-> 0,
   delayed |-> 0, total |-> 0]

\* No response body.
NoBody == [none |-> TRUE]

\* No request to /health or /queue/stats has been made.
NoHttp == [route |-> None, pc |-> "idle", status |-> 0, body |-> NoBody]

(***************************************************************************)
(* The calls table.                                                        *)
(***************************************************************************)

RowsWithId(id) == {i \in 1..Len(calls) : calls[i].id = id}

\* Variant: the table has no primary key on id.
PrimaryKeyFree_NoKey(id) == TRUE

\* id TEXT PRIMARY KEY: an insert is accepted only when no row has the id.
PrimaryKeyFree(id) == RowsWithId(id) = {}

\* Variant: the row is written without the resolved tenant and lands on the
\* tenant of the session.
NewCallRow_AmbientTenant(call, business) ==
  [id |-> call.id, business_id |-> "demo-001", assistant_id |-> call.assistantId,
   sentiment_score |-> NULL, products_mentioned |-> NULL, issues_identified |-> NULL,
   opportunity_value |-> NULL, processed_at |-> NULL, processing_version |-> NULL]

\* Variant: analysis values of the call object are copied into the row.
NewCallRow_PayloadAnalysis(call, business) ==
  LET given(field) == IF call.analysis = NULL THEN NULL ELSE call.analysis[field]
  IN [id |-> call.id, business_id |-> business.id, assistant_id |-> call.assistantId,
      sentiment_score |-> given("sentiment_score"),
      products_mentioned |-> given("products_mentioned"),
      issues_identified |-> given("issues_identified"),
      opportunity_value |-> given("opportunity_value"),
      processed_at |-> given("processed_at"),
      processing_version |-> given("processing_version")]

\* The row handleVapiWebhook inserts: explicit business_id, and the six
\* analysis fields null.
NewCallRow(call, business) ==
  [id |-> call.id, business_id |-> business.id, assistant_id |-> call.assistantId,
   sentiment_score |-> NULL, products_mentioned |-> NULL, issues_identified |-> NULL,
   opportunity_value |-> NULL, processed_at |-> NULL, processing_version |-> NULL]

(***************************************************************************)
(* The queue.                                                              *)
(***************************************************************************)

\* jobId: `${data.callId}-${Date.now()}`
JobId(callId, t) == <<callId, t>>

\* Queue.add: a job whose id is already in the queue is not added again;
\* a new job starts in waiting with no attempt made, no backoff delay and
\* no finish time.
QueueAdd(q, jobId, data) ==
  IF jobId \in DOMAIN q THEN q
  ELSE [j \in DOMAIN q \cup {jobId} |->
          IF j = jobId
          THEN [callId |-> data.callId, businessId |-> data.businessId,
                assistantId |-> data.assistantId, state |-> "waiting", attemptsMade |-> 0,
                delay |-> 0, delayedUntil |-> 0, finishedOn |-> 0]
          ELSE q[j]]

(***************************************************************************)
(* Responses of handleVapiWebhook.                                         *)
(***************************************************************************)

Response(status, error, callId, businessId, processingQueued) ==
  [status |-> status, received |-> TRUE, error |-> error, callId |-> callId,
   businessId |-> businessId, processingQueued |-> processingQueued]

NoResponse ==
  [status |-> 0, received |-> FALSE, error |-> None, callId |-> None,
   businessId |-> None, processingQueued |-> FALSE]

IgnoredResponse == Response(200, None, None, None, FALSE)
MissingCallResponse == Response(200, "Missing call data", None, None, FALSE)
UnknownAssistantResponse == Response(200, "Unknown assistant", None, None, FALSE)
DatabaseErrorResponse == Response(200, "Database error", None, None, FALSE)
SuccessResponse(callId, businessId) == Response(200, None, callId, businessId, TRUE)
\* Variant: the outer catch answers 500.
InternalErrorResponse_Status500 == Response(500, "Internal error", None, None, FALSE)
InternalErrorResponse == Response(200, "Internal error", None, None, FALSE)

\* Variant: every event type is processed.
AcceptedType_Any(type) == TRUE

\* payload.type !== 'call.ended' && payload.type !== 'end-of-call-report'
AcceptedType(type) == type = "call.ended" \/ type = "end-of-call-report"

(***************************************************************************)
(* Handler executions.                                                     *)
(***************************************************************************)

IdleRequest ==
  [pc |-> "idle", payload |-> NoPayload, lookedUp |-> FALSE, business |-> NoBusiness,
   insert |-> None, publish |-> None, jobId |-> <<>>, response |-> NoResponse]

Init ==
  /\ calls = <<>>
  /\ jobs = <<>>
  /\ now = 0
  /\ req = [r \in Requests |-> IdleRequest]
  /\ tenants = businesses
  /\ res = IdleResolution
  /\ stats = NoStats
  /\ source = Payloads
  /\ http = NoHttp

\* Requests are numbered in order of arrival.
NextToArrive(r) ==
  /\ req[r].pc = "idle"
  /\ \A s \in Requests : s < r => req[s].pc # "idle"

Finish(r, fields, response) ==
  req' = [req EXCEPT ![r] = [fields EXCEPT !.pc = "done", !.response = response]]

\* request.json() rejects, or the body is the JSON value null and reading
\* payload.type throws: the outer catch answers.
ReceiveUnparseable(r) ==
  /\ NextToArrive(r)
  /\ \E p \in source :
       /\ p.body \in {"invalid", "null"}
       /\ Finish(r, [req[r] EXCEPT !.payload = p], InternalErrorResponse)
  /\ UNCHANGED <<calls, jobs, now, tenants, res, stats, source, http>>

ReceiveIgnored(r) ==
  /\ NextToArrive(r)
  /\ \E p \in source :
       /\ p.body = "object"
       /\ ~AcceptedType(p.type)
       /\ Finish(r, [req[r] EXCEPT !.payload = p], IgnoredResponse)
  /\ UNCHANGED <<calls, jobs, now, tenants, res, stats, source, http>>

ReceiveMissingCall(r) ==
  /\ NextToArrive(r)
  /\ \E p \in source :
       /\ p.body = "object"
       /\ AcceptedType(p.type)
       /\ ~p.hasCall
       /\ Finish(r, [req[r] EXCEPT !.payload = p], MissingCallResponse)
  /\ UNCHANGED <<calls, jobs, now, tenants, res, stats, source, http>>

ReceiveUnknownAssistant(r) ==
  /\ NextToArrive(r)
  /\ \E p \in source :
       /\ p.body = "object"
       /\ AcceptedType(p.type)
       /\ p.hasCall
       /\ getBusinessByAssistantId(p.assistantId) = NoBusiness
       /\ Finish(r, [req[r] EXCEPT !.payload = p, !.lookedUp = TRUE],
                 UnknownAssistantResponse)
  /\ UNCHANGED <<calls, jobs, now, tenants, res, stats, source, http>>

ReceiveAccepted(r) ==
  /\ NextToArrive(r)
  /\ \E p \in source :
       /\ p.body = "object"
       /\ AcceptedType(p.type)
       /\ p.hasCall
       /\ getBusinessByAssistantId(p.assistantId) # NoBusiness
       /\ req' = [req EXCEPT ![r] =
                    [@ EXCEPT !.pc = "insert", !.payload = p, !.lookedUp = TRUE,
                              !.business = getBusinessByAssistantId(p.assistantId)]]
  /\ UNCHANGED <<calls, jobs, now, tenants, res, stats, source, http>>

\* The insert is accepted: the row is appended and returned by .select().single().
InsertOk(r) ==
  /\ req[r].pc = "insert"
  /\ PrimaryKeyFree(req[r].payload.id)
  /\ calls' = Append(calls, NewCallRow(req[r].payload, req[r].business))
  /\ req' = [req EXCEPT ![r] = [@ EXCEPT !.pc = "publish", !.insert = "ok"]]
  /\ UNCHANGED <<jobs, now, tenants, res, stats, source, http>>

\* Variant: a primary-key conflict is ignored and the handler goes on to
\* publish (insert with ignoreDuplicates).
InsertConflict_Ignored(r) ==
  /\ req[r].pc = "insert"
  /\ ~PrimaryKeyFree(req[r].payload.id)
  /\ req' = [req EXCEPT ![r] = [@ EXCEPT !.pc = "publish", !.insert = "conflict"]]
  /\ UNCHANGED <<calls, jobs, now, tenants, res, stats, source, http>>

\* Variant: the insert is an upsert, and the row of a redelivered call is
\* written anew.
InsertConflict_Upsert(r) ==
  /\ req[r].pc = "insert"
  /\ ~PrimaryKeyFree(req[r].payload.id)
  /\ calls' = [i \in 1..Len(calls) |->
                IF calls[i].id = req[r].payload.id
                THEN NewCallRow(req[r].payload, req[r].business) ELSE calls[i]]
  /\ req' = [req EXCEPT ![r] = [@ EXCEPT !.pc = "publish", !.insert = "ok"]]
  /\ UNCHANGED <<jobs, now, tenants, res, stats, source, http>>

\* A row with the id exists: the insert violates the primary key and
\* insertError is set.
InsertConflict(r) ==
  /\ req[r].pc = "insert"
  /\ ~PrimaryKeyFree(req[r].payload.id)
  /\ Finish(r, [req[r] EXCEPT !.insert = "conflict"], DatabaseErrorResponse)
  /\ UNCHANGED <<calls, jobs, now, tenants, res, stats, source, http>>

\* Variant: insertError is not checked and the handler goes on to publish.
InsertFail_Continue(r) ==
  /\ req[r].pc = "insert"
  /\ req' = [req EXCEPT ![r] = [@ EXCEPT !.pc = "publish", !.insert = "failed"]]
  /\ UNCHANGED <<calls, jobs, now, tenants, res, stats, source, http>>

\* The datastore reports any other error (unreachable, rejected row).
InsertFail(r) ==
  /\ req[r].pc = "insert"
  /\ Finish(r, [req[r] EXCEPT !.insert = "failed"], DatabaseErrorResponse)
  /\ UNCHANGED <<calls, jobs, now, tenants, res, stats, source, http>>

PublishData(r) ==
  [callId |-> req[r].payload.id, businessId |-> req[r].business.id,
   assistantId |-> req[r].payload.assistantId]

\* Variant: the handler publishes the job and answers only when the worker
\* has settled it.
PublishOk_AwaitsJob(r) ==
  /\ req[r].pc = "publish"
  /\ IF req[r].jobId = <<>>
     THEN /\ jobs' = QueueAdd(jobs, JobId(req[r].payload.id, now), PublishData(r))
          /\ req' = [req EXCEPT ![r] =
                       [@ EXCEPT !.publish = "ok", !.jobId = JobId(req[r].payload.id, now)]]
     ELSE /\ req[r].jobId \in DOMAIN jobs
          /\ jobs[req[r].jobId].state \in {"completed", "failed"}
          /\ Finish(r, req[r], SuccessResponse(req[r].payload.id, req[r].business.id))
          /\ UNCHANGED jobs
  /\ UNCHANGED <<calls, now, tenants, res, stats, source, http>>

\* publishJob resolves: the job is in the queue.
PublishOk(r) ==
  /\ req[r].pc = "publish"
  /\ jobs' = QueueAdd(jobs, JobId(req[r].payload.id, now), PublishData(r))
  /\ Finish(r, [req[r] EXCEPT !.publish = "ok", !.jobId = JobId(req[r].payload.id, now)],
            SuccessResponse(req[r].payload.id, req[r].business.id))
  /\ UNCHANGED <<calls, now, tenants, res, stats, source, http>>

\* Variant: a failed publish deletes the row that was just inserted.
PublishFail_Rollback(r) ==
  /\ req[r].pc = "publish"
  /\ calls' = SelectSeq(calls, LAMBDA row : row.id # req[r].payload.id)
  /\ Finish(r, [req[r] EXCEPT !.publish = "failed"],
            SuccessResponse(req[r].payload.id, req[r].business.id))
  /\ UNCHANGED <<jobs, now, tenants, res, stats, source, http>>

\* publishJob rejects (broker unreachable): the inner catch logs and the
\* handler goes on to the same response.
PublishFail(r) ==
  /\ req[r].pc = "publish"
  /\ Finish(r, [req[r] EXCEPT !.publish = "failed"],
            SuccessResponse(req[r].payload.id, req[r].business.id))
  /\ UNCHANGED <<calls, jobs, now, tenants, res, stats, source, http>>

\* Date.now() advances.
Tick ==
  /\ now < MaxTime
  /\ now' = now + 1
  /\ UNCHANGED <<calls, jobs, req, tenants, res, stats, source, http>>

Next ==
  \/ \E r \in Requests :
       \/ ReceiveUnparseable(r)
       \/ ReceiveIgnored(r)
       \/ ReceiveMissingCall(r)
       \/ ReceiveUnknownAssistant(r)
       \/ ReceiveAccepted(r)
       \/ InsertOk(r)
       \/ InsertConflict(r)
       \/ InsertFail(r)
       \/ PublishOk(r)
       \/ PublishFail(r)
  \/ Tick

Spec == Init /\ [][Next]_vars

(***************************************************************************)
(* extractSubdomain applied to Host headers.                               *)
(***************************************************************************)

HostLabels == {"", "foo", "www", "api", "admin", "app", "localhost", "127", "0", "1"}

LabelSeqs == UNION {[1..n -> HostLabels] : n \in 1..MaxLabels}

Ports == {<<>>, <<Colon, "3001">>, <<Colon, "3001", Colon, "80">>}

\* A call with a Host header, and the call without one.
HostInputs(fn) ==
  { [IdleResolution EXCEPT !.pc = "start", !.fn = fn, !.labels = l, !.port = p,
                           !.host = HostString(l, p)] : l \in LabelSeqs, p \in Ports }
  \cup { [IdleResolution EXCEPT !.pc = "start", !.fn = fn] }

InitSubdomain ==
  /\ calls = <<>>
  /\ jobs = <<>>
  /\ now = 0
  /\ req = [r \in Requests |-> IdleRequest]
  /\ tenants = businesses
  /\ res \in HostInputs("extractSubdomain")
  /\ stats = NoStats
  /\ source = Payloads
  /\ http = NoHttp

CallExtractSubdomain ==
  /\ res.pc = "start"
  /\ res.fn = "extractSubdomain"
  /\ res' = [res EXCEPT !.pc = "done", !.subdomain = extractSubdomain(res.host)]
  /\ UNCHANGED <<calls, jobs, now, req, tenants, stats, source, http>>

NextSubdomain == CallExtractSubdomain

SpecSubdomain == InitSubdomain /\ [][NextSubdomain]_vars

(***************************************************************************)
(* Tenant resolution against the businesses table.                         *)
(***************************************************************************)

\* Rows an INSERT INTO businesses may carry; vapi_assistant_id may be NULL.
BusinessRows ==
  [id : {"demo-001", "biz-2", "biz-3"},
   subdomain : {"demo", "acme", "globex"},
   vapi_assistant_id : {"asst_demo_12345", "asst-2", None}]

\* INSERT INTO businesses ... VALUES ('demo-001', ..., 'demo', 'asst_demo_12345', ...)
DemoBusiness ==
  [id |-> "demo-001", subdomain |-> "demo", vapi_assistant_id |-> "asst_demo_12345"]

\* .single(): the row when the query is answered and matches exactly one
\* row; otherwise data is null and error is set.
Single(rows, dbOk) ==
  IF dbOk /\ Cardinality(rows) = 1
  THEN [data |-> CHOOSE b \in rows : TRUE, error |-> FALSE]
  ELSE [data |-> NoBusiness, error |-> TRUE]

\* What a resolution function hands to its caller: a business or null, or
\* an exception.
Returned(business) == [business |-> business, threw |-> FALSE]
Thrown == [business |-> NoBusiness, threw |-> TRUE]

\* Variant: the query error is thrown instead of being turned into null.
getBusinessBySubdomain_Throws(subdomain, dbOk) ==
  LET r == Single({b \in tenants : Str(b.subdomain) = subdomain}, dbOk)
  IN IF r.error THEN Thrown ELSE Returned(r.data)

getBusinessBySubdomain(subdomain, dbOk) ==
  LET r == Single({b \in tenants : Str(b.subdomain) = subdomain}, dbOk)
  IN IF r.error THEN Returned(NoBusiness) ELSE Returned(r.data)

\* !subdomain, !businessIdHeader: null and the empty string are falsy.
Falsy(string) == string = Null \/ string = <<>>

resolveBusinessFromSubdomain(subdomain, dbOk) ==
  IF Falsy(subdomain) THEN Returned(NoBusiness)
  ELSE LET r == getBusinessBySubdomain(subdomain, dbOk)
       IN IF r.threw THEN Returned(NoBusiness) ELSE r

\* Variant: the X-Business-ID header is consulted before the Host header.
getBusinessFromRequest_HeaderFirst(hostname, businessIdHeader, dbOk) ==
  IF ~Falsy(businessIdHeader)
  THEN Returned(Single({b \in tenants : Str(b.id) = businessIdHeader}, dbOk).data)
  ELSE resolveBusinessFromSubdomain(extractSubdomain(hostname), dbOk)

getBusinessFromRequest(hostname, businessIdHeader, dbOk) ==
  LET subdomain == extractSubdomain(hostname)
  IN IF Falsy(subdomain)
     THEN IF ~Falsy(businessIdHeader)
          THEN Returned(Single({b \in tenants : Str(b.id) = businessIdHeader}, dbOk).data)
          ELSE Returned(NoBusiness)
     ELSE resolveBusinessFromSubdomain(subdomain, dbOk)

\* Host headers of resolution requests.
TenantHosts ==
  { [labels |-> <<"localhost">>, port |-> <<Colon, "3001">>],
    [labels |-> <<"demo", "example", "com">>, port |-> <<>>],
    [labels |-> <<"acme", "example", "com">>, port |-> <<Colon, "3001">>],
    [labels |-> <<"ghost", "example", "com">>, port |-> <<>>],
    [labels |-> <<"www", "example", "com">>, port |-> <<>>],
    [labels |-> <<"", "example", "com">>, port |-> <<>>],
    [labels |-> <<"example", "com">>, port |-> <<>>] }

\* The Host header as a string, or no Host header.
TenantHostnames == {HostString(h.labels, h.port) : h \in TenantHosts} \cup {Null}

\* X-Business-ID headers: absent, empty, or an id.
XBusinessIds == {Null, <<>>, <<"demo-001">>, <<"biz-2">>, <<"ghost">>}

SubdomainInputs == {Null, <<>>, <<"demo">>, <<"acme">>, <<"ghost">>}

InitTenants ==
  /\ calls = <<>>
  /\ jobs = <<>>
  /\ now = 0
  /\ req = [r \in Requests |-> IdleRequest]
  /\ tenants = {DemoBusiness}
  /\ res = IdleResolution
  /\ stats = NoStats
  /\ source = Payloads
  /\ http = NoHttp

\* INSERT INTO businesses: id is the primary key and subdomain is UNIQUE NOT
\* NULL; vapi_assistant_id is not constrained.
InsertBusiness(b) ==
  /\ Cardinality(tenants) < MaxTenants
  /\ \A t \in tenants : t.id # b.id /\ t.subdomain # b.subdomain
  /\ tenants' = tenants \cup {b}
  /\ UNCHANGED <<calls, jobs, now, req, res, stats, source, http>>

Resolved(fn, result) ==
  [IdleResolution EXCEPT !.pc = "done", !.fn = fn,
                         !.business = result.business, !.threw = result.threw]

CallGetBusinessFromRequest ==
  /\ \E hostname \in TenantHostnames, x \in XBusinessIds, dbOk \in BOOLEAN :
       res' = [Resolved("getBusinessFromRequest",
                        getBusinessFromRequest(hostname, x, dbOk))
                 EXCEPT !.host = hostname, !.xBusinessId = x, !.dbOk = dbOk,
                        !.subdomain = extractSubdomain(hostname)]
  /\ UNCHANGED <<calls, jobs, now, req, tenants, stats, source, http>>

CallResolveBusinessFromSubdomain ==
  /\ \E s \in SubdomainInputs, dbOk \in BOOLEAN :
       res' = [Resolved("resolveBusinessFromSubdomain",
                        resolveBusinessFromSubdomain(s, dbOk))
                 EXCEPT !.subdomain = s, !.dbOk = dbOk]
  /\ UNCHANGED <<calls, jobs, now, req, tenants, stats, source, http>>

CallGetBusinessBySubdomain ==
  /\ \E s \in SubdomainInputs \ {Null}, dbOk \in BOOLEAN :
       res' = [Resolved("getBusinessBySubdomain", getBusinessBySubdomain(s, dbOk))
                 EXCEPT !.subdomain = s, !.dbOk = dbOk]
  /\ UNCHANGED <<calls, jobs, now, req, tenants, stats, source, http>>

\* The query of getBusinessByAssistantId fails: the error branch returns null.
CallGetBusinessByAssistantId ==
  /\ \E a \in AssistantIds, dbOk \in BOOLEAN :
       res' = [Resolved("getBusinessByAssistantId",
                        Returned(IF dbOk THEN getBusinessByAssistantId(a) ELSE NoBusiness))
                 EXCEPT !.assistantId = a, !.dbOk = dbOk]
  /\ UNCHANGED <<calls, jobs, now, req, tenants, stats, source, http>>

NextTenants ==
  \/ \E b \in BusinessRows : InsertBusiness(b)
  \/ CallGetBusinessFromRequest
  \/ CallResolveBusinessFromSubdomain
  \/ CallGetBusinessBySubdomain
  \/ CallGetBusinessByAssistantId

SpecTenants == InitTenants /\ [][NextTenants]_vars

(***************************************************************************)
(* The dashboard routes of fetch: /demo, / and /dashboard.                 *)
(***************************************************************************)

\* What a dashboard route answers: the status, the kind of page and, for a
\* dashboard, the business whose context is injected into it.
Page(status, kind, business) == [status |-> status, kind |-> kind, business |-> business]

\* serveDashboard(request): 404 when no business is resolved, the dashboard
\* of the business when dashboard.html can be read, and 500 from the catch
\* otherwise.
serveDashboard(hostname, businessIdHeader, dbOk, fileOk) ==
  LET r == getBusinessFromRequest(hostname, businessIdHeader, dbOk)
  IN IF r.threw THEN Page(500, "error", NoBusiness)
     ELSE IF r.business = NoBusiness THEN Page(404, "not found", NoBusiness)
     ELSE IF ~fileOk THEN Page(500, "error", NoBusiness)
     ELSE Page(200, "dashboard", r.business)

DashboardRoutes == {"/demo", "/", "/dashboard"}

\* fetch for a dashboard route.  /demo sets X-Business-ID to demo-001 on a
\* copy of the request, whose construction from the rewritten URL may be
\* refused (requestOk), and serves the dashboard for the copy; / and
\* /dashboard serve the dashboard when the Host header has a subdomain and
\* the landing page otherwise.
FetchDashboard(pathname, hostname, businessIdHeader, dbOk, fileOk, requestOk) ==
  IF pathname = "/demo"
  THEN IF requestOk THEN serveDashboard(hostname, <<"demo-001">>, dbOk, fileOk)
       ELSE Page(500, "error", NoBusiness)
  ELSE IF ~Falsy(extractSubdomain(hostname))
       THEN serveDashboard(hostname, businessIdHeader, dbOk, fileOk)
       ELSE Page(200, "landing", NoBusiness)

\* A request to a dashboard route is answered.
CallFetchDashboard ==
  /\ http.pc = "idle"
  /\ \E pathname \in DashboardRoutes, hostname \in TenantHostnames, x \in XBusinessIds,
        dbOk \in BOOLEAN, fileOk \in BOOLEAN, requestOk \in BOOLEAN :
       LET page == FetchDashboard(pathname, hostname, x, dbOk, fileOk, requestOk)
       IN /\ res' = [IdleResolution EXCEPT !.pc = "done", !.fn = "fetch", !.host = hostname,
                                            !.xBusinessId = x, !.dbOk = dbOk,
                                            !.subdomain = extractSubdomain(hostname),
                                            !.business = page.business]
          /\ http' = [route |-> pathname, pc |-> "done", status |-> page.status,
                      body |-> [page |-> page, fileOk |-> fileOk, requestOk |-> requestOk]]
  /\ UNCHANGED <<calls, jobs, now, req, tenants, stats, source>>

\* The businesses table when the request arrives: the demo business alone,
\* or beside a second business.
DashboardTenants ==
  { {DemoBusiness},
    {DemoBusiness, [id |-> "biz-2", subdomain |-> "acme", vapi_assistant_id |-> "asst-2"]} }

InitDashboard ==
  /\ calls = <<>>
  /\ jobs = <<>>
  /\ now = 0
  /\ req = [r \in Requests |-> IdleRequest]
  /\ tenants \in DashboardTenants
  /\ res = IdleResolution
  /\ stats = NoStats
  /\ source = Payloads
  /\ http = NoHttp

NextDashboard == CallFetchDashboard

SpecDashboard == InitDashboard /\ [][NextDashboard]_vars

(***************************************************************************)
(* The analyzer.  Every number of a raw response and of an analysis is in  *)
(* hundredths: 100 is 1.0, 30 is 0.3, 4570 is 45.7.                        *)
(***************************************************************************)

\* A JSON value with its type; a field the object lacks is undefined.
Json(type, v) == [type |-> type, v |-> v]
Undefined == Json("undefined", 0)

\* The result of a parse: a number, or NaN.
NaN == [nan |-> TRUE, n |-> 0]
Num(n) == [nan |-> FALSE, n |-> n]

\* The number that the start of String(x) reads as.  A number prints as
\* itself; a string may be a number as a whole or begin with one; an array
\* prints as its items joined by commas, so it begins as its first item
\* does; undefined, null, true, false and objects print as words.
NumericPrefix(x) ==
  LET reads(y) == y.type \in {"number", "numeric string", "string with a numeric prefix"}
  IN IF reads(x) THEN Num(x.v)
     ELSE IF x.type = "array" /\ x.v # <<>> /\ reads(Head(x.v)) THEN Num(Head(x.v).v)
     ELSE NaN

\* Truncation towards zero, of a number in hundredths
Trunc(n) == IF n >= 0 THEN (n \div 100) * 100 ELSE -(((-n) \div 100) * 100)

parseFloat(x) == NumericPrefix(x)

\* Variant: the fraction is kept.
parseInt_KeepsFraction(x) == NumericPrefix(x)

\* parseInt(x): the digits before the decimal point
parseInt(x) ==
  LET prefix == NumericPrefix(x)
  IN IF prefix.nan THEN NaN ELSE Num(Trunc(prefix.n))

\* parsed || 0: NaN and 0 are falsy
OrZero(parsed) == IF parsed.nan THEN 0 ELSE parsed.n

Clamp(lo, x, hi) == IF x < lo THEN lo ELSE IF x > hi THEN hi ELSE x

\* Array.isArray(a) ? a.filter(typeof === 'string') : []
StringsOf(a) ==
  IF a.type = "array"
  THEN LET strings == SelectSeq(a.v, LAMBDA item : item.type = "string")
       IN [i \in 1..Len(strings) |-> strings[i].v]
  ELSE <<>>

\* x || fallback, for a field that is undefined or a string
StringOr(x, fallback) ==
  IF x.type = "string" /\ x.v # "" THEN x.v ELSE fallback

\* normalizeAnalysis(raw)
normalizeAnalysis(raw) ==
  LET sentimentScore == Clamp(-100, OrZero(parseFloat(raw.sentiment_score)), 100)
      sentimentLabel ==
        IF raw.sentiment_label.type = "string"
             /\ raw.sentiment_label.v \in {"positive", "neutral", "negative"}
        THEN raw.sentiment_label.v
        ELSE IF sentimentScore > 30 THEN "positive"
        ELSE IF sentimentScore < -30 THEN "negative"
        ELSE "neutral"
      opportunityValue == Clamp(0, OrZero(parseInt(raw.opportunity_value)), 10000)
  IN [sentiment_score |-> sentimentScore,
      sentiment_label |-> sentimentLabel,
      products_mentioned |-> StringsOf(raw.products_mentioned),
      issues_identified |-> StringsOf(raw.issues_identified),
      opportunity_value |-> opportunityValue,
      summary |-> StringOr(raw.summary, "Call analysis completed")]

\* getDefaultAnalysis()
getDefaultAnalysis ==
  [sentiment_score |-> 0, sentiment_label |-> "neutral", products_mentioned |-> <<>>,
   issues_identified |-> <<>>, opportunity_value |-> 5000,
   summary |-> "Analysis unavailable"]

\* What the chat completion comes to: the request fails, the content is
\* empty, the content is not JSON, or the content is a JSON object.
Completion(kind, raw) == [kind |-> kind, raw |-> raw]

\* What the analyzer hands to its caller: an analysis, or an exception.
Analysed(analysis) == [analysis |-> analysis, threw |-> FALSE]
AnalysisThrown == [analysis |-> getDefaultAnalysis, threw |-> TRUE]

\* Variant: a failed analysis yields the default analysis.
analyzeCallWithGPT_DefaultOnError(completion) ==
  IF completion.kind = "object" THEN Analysed(normalizeAnalysis(completion.raw))
  ELSE Analysed(getDefaultAnalysis)

\* analyzeCallWithGPT: every failure is logged and thrown again.
analyzeCallWithGPT(completion) ==
  IF completion.kind = "object" THEN Analysed(normalizeAnalysis(completion.raw))
  ELSE AnalysisThrown

(***************************************************************************)
(* The queue 'ai-processing' under its defaultJobOptions, and the worker   *)
(* that consumes it.  The worker is not part of the sources; it is the     *)
(* collaborator of the specification: it takes a waiting job, and marks it *)
(* completed or failed.                                                    *)
(***************************************************************************)

\* What the chat completion may come to for a call.
RawAnalyses ==
  { [sentiment_score |-> Json("number", 80), sentiment_label |-> Json("string", "positive"),
     products_mentioned |-> Json("array", <<Json("string", "crown"), Json("number", 7)>>),
     issues_identified |-> Json("array", <<>>),
     opportunity_value |-> Json("number", 9000), summary |-> Json("string", "wants a crown")],
    [sentiment_score |-> Json("string", "unsure"), sentiment_label |-> Undefined,
     products_mentioned |-> Undefined, issues_identified |-> Json("string", "pricing"),
     opportunity_value |-> Json("number", 25000), summary |-> Undefined] }

EmptyRaw == [f \in {"sentiment_score", "sentiment_label", "products_mentioned",
                    "issues_identified", "opportunity_value", "summary"} |-> Undefined]

Completions ==
  {Completion(kind, EmptyRaw) : kind \in {"error", "empty", "not json"}}
    \cup {Completion("object", raw) : raw \in RawAnalyses}

\* The version the worker stamps on the rows it analysed.
ProcessingVersion == "v1"

\* The analysis fields of the row are all null: not analysed yet.
Pending(row) == \A field \in AnalysisFields : row[field] = NULL

\* The worker's write: the row of the call takes the analysis when it has
\* none, and only then; no other row and no other column is written.
WriteAnalysis(rows, callId, analysis, t) ==
  [i \in 1..Len(rows) |->
     IF rows[i].id = callId /\ Pending(rows[i])
     THEN [rows[i] EXCEPT !.sentiment_score = Value(analysis.sentiment_score),
                          !.products_mentioned = Value(analysis.products_mentioned),
                          !.issues_identified = Value(analysis.issues_identified),
                          !.opportunity_value = Value(analysis.opportunity_value),
                          !.processed_at = Value(t),
                          !.processing_version = Value(ProcessingVersion)]
     ELSE rows[i]]

\* Variant: one more attempt.
attempts_OneMore == 3 + 1

\* defaultJobOptions.attempts
attempts == 3

\* defaultJobOptions.backoff.delay, in milliseconds
backoffDelay == 5000

\* defaultJobOptions.removeOnComplete: age in seconds, count in jobs
removeOnCompleteAge == 86400
removeOnCompleteCount == 1000

\* Variant: failed jobs are removed.
removeOnFail_True == TRUE

\* defaultJobOptions.removeOnFail
removeOnFail == FALSE

RECURSIVE Pow2(_)
Pow2(n) == IF n <= 0 THEN 1 ELSE 2 * Pow2(n - 1)

\* Variant: backoff type 'fixed'.
BackoffDelay_Fixed(attemptsMade) == backoffDelay

\* backoff type 'exponential': 2 ^ (attemptsMade - 1) * delay
BackoffDelay(attemptsMade) == Pow2(attemptsMade - 1) * backoffDelay

JobsInState(q, state) == {j \in DOMAIN q : q[j].state = state}

Remove(q, removed) == [j \in DOMAIN q \ removed |-> q[j]]

\* The data publishJob is called with: the call "c1" of the demo business.
QueueJobData ==
  { [callId |-> "c1", businessId |-> "demo-001", assistantId |-> "asst_demo_12345"] }

InitQueue ==
  /\ calls = <<>>
  /\ jobs = <<>>
  /\ now = 0
  /\ req = [r \in Requests |-> IdleRequest]
  /\ tenants = businesses
  /\ res = IdleResolution
  /\ stats = NoStats
  /\ source = Payloads
  /\ http = NoHttp

\* Jobs the queue may already hold when observation starts.  Completed
\* ones: a job was published every second, from 1500 ms on, and completed a
\* second later.
\* A failed one: published at 500 ms, it failed at once, again after its
\* 5000 ms backoff and a last time after its 10000 ms backoff.
CompletedBacklog(n) == {JobId("c1", k * 1000 + 500) : k \in 1..n}

FailedBacklog == {JobId("c2", 500)}

Backlog == CompletedBacklog(removeOnCompleteCount) \cup FailedBacklog

BacklogJob(jobId) ==
  IF jobId \in FailedBacklog
  THEN [callId |-> jobId[1], businessId |-> "demo-001", assistantId |-> "asst_demo_12345",
        state |-> "failed", attemptsMade |-> attempts,
        delay |-> BackoffDelay(attempts - 1), delayedUntil |-> 0,
        finishedOn |-> jobId[2] + BackoffDelay(1) + BackoffDelay(2)]
  ELSE [callId |-> jobId[1], businessId |-> "demo-001", assistantId |-> "asst_demo_12345",
        state |-> "completed", attemptsMade |-> 1,
        delay |-> 0, delayedUntil |-> 0, finishedOn |-> jobId[2] + 1000]

BacklogSizes ==
  {removeOnCompleteCount - 2, removeOnCompleteCount - 1, removeOnCompleteCount}

\* publishJob('ai-processing', data) resolves.
publishJob(data) ==
  /\ Cardinality(DOMAIN jobs \ Backlog) < MaxJobs
  /\ jobs' = QueueAdd(jobs, JobId(data.callId, now), data)
  /\ UNCHANGED <<calls, now, req, tenants, res, stats, source, http>>

\* The worker takes a waiting job.
WorkerTake(j) ==
  /\ jobs[j].state = "waiting"
  /\ Cardinality(JobsInState(jobs, "active")) < MaxActive
  /\ jobs' = [jobs EXCEPT ![j].state = "active"]
  /\ UNCHANGED <<calls, now, req, tenants, res, stats, source, http>>

\* A failed attempt under attempts, backoff and removeOnFail: the job is
\* delayed for its backoff while attempts are left, and otherwise moved to
\* failed, where it is kept unless removeOnFail.
MoveToFailed(q, j, t) ==
  LET made == q[j].attemptsMade + 1
  IN IF made < attempts
     THEN [q EXCEPT ![j].state = "delayed", ![j].attemptsMade = made,
                    ![j].delay = BackoffDelay(made),
                    ![j].delayedUntil = t + BackoffDelay(made)]
     ELSE IF removeOnFail THEN Remove(q, {j})
     ELSE [q EXCEPT ![j].state = "failed", ![j].attemptsMade = made,
                    ![j].finishedOn = t]

\* The analysis of the call threw: the worker marks the job it holds failed
\* and writes nothing.
WorkerFail(j) ==
  /\ jobs[j].state = "active"
  /\ \E completion \in Completions : analyzeCallWithGPT(completion).threw
  /\ jobs' = MoveToFailed(jobs, j, now)
  /\ UNCHANGED <<calls, now, req, tenants, res, stats, source, http>>

\* The backoff of a delayed job has elapsed: it is waiting again.
PromoteDelayed(j) ==
  /\ jobs[j].state = "delayed"
  /\ now >= jobs[j].delayedUntil
  /\ jobs' = [jobs EXCEPT ![j].state = "waiting", ![j].delayedUntil = 0]
  /\ UNCHANGED <<calls, now, req, tenants, res, stats, source, http>>

\* The order of the completed set: by finish time, ties by job id.
CallIdOrder == <<"c1", "c2">>

CallIdRank(callId) == CHOOSE i \in 1..Len(CallIdOrder) : CallIdOrder[i] = callId

Older(q, a, b) ==
  \/ q[a].finishedOn < q[b].finishedOn
  \/ /\ q[a].finishedOn = q[b].finishedOn
     /\ \/ CallIdRank(a[1]) < CallIdRank(b[1])
        \/ a[1] = b[1] /\ a[2] < b[2]

Oldest(q, S) == CHOOSE k \in S : \A o \in S : ~Older(q, o, k)

\* The n newest jobs of S.
RECURSIVE KeepNewest(_, _, _)
KeepNewest(q, S, n) ==
  IF Cardinality(S) <= n \/ S = {} THEN S
  ELSE KeepNewest(q, S \ {Oldest(q, S)}, n)

\* removeOnComplete { age, count } applied at time t: completed jobs that
\* finished age seconds ago or earlier go, then all but the count newest.
RemoveOnComplete(q, t) ==
  LET completed == JobsInState(q, "completed")
      aged == {k \in completed : q[k].finishedOn <= t - removeOnCompleteAge * 1000}
      kept == KeepNewest(q, completed \ aged, removeOnCompleteCount)
  IN Remove(q, completed \ kept)

MoveToCompleted(q, j, t) ==
  RemoveOnComplete([q EXCEPT ![j].state = "completed",
                             ![j].attemptsMade = q[j].attemptsMade + 1,
                             ![j].finishedOn = t], t)

\* The analysis of the call returned: the worker writes it to the row of the
\* call and marks the job it holds completed.
WorkerComplete(j) ==
  /\ jobs[j].state = "active"
  /\ \E completion \in Completions :
       LET result == analyzeCallWithGPT(completion)
       IN /\ ~result.threw
          /\ calls' = WriteAnalysis(calls, jobs[j].callId, result.analysis, now)
  /\ jobs' = MoveToCompleted(jobs, j, now)
  /\ UNCHANGED <<now, req, tenants, res, stats, source, http>>

\* Queue.clean(grace, limit, type): up to limit jobs of the type that
\* finished grace milliseconds ago or earlier are removed, oldest first.
Clean(q, grace, limit, type, t) ==
  LET old == {k \in JobsInState(q, type) : q[k].finishedOn <= t - grace}
      spared == IF Cardinality(old) <= limit THEN {}
                ELSE KeepNewest(q, old, Cardinality(old) - limit)
  IN Remove(q, old \ spared)

\* Variant: failed jobs are cleaned as well.
cleanupQueue_FailedToo ==
  /\ jobs' = Clean(Clean(jobs, 86400000, 1000, "completed", now),
                   86400000, 1000, "failed", now)
  /\ UNCHANGED <<calls, now, req, tenants, res, stats, source, http>>

cleanupQueue ==
  /\ jobs' = Clean(jobs, 86400000, 1000, "completed", now)
  /\ UNCHANGED <<calls, now, req, tenants, res, stats, source, http>>

\* A day passes.
DayPasses ==
  /\ now < MaxDays * 86400000
  /\ now' = now + 86400000
  /\ UNCHANGED <<calls, jobs, req, tenants, res, stats, source, http>>

\* Five seconds pass.
QueueTick ==
  /\ now < MaxQueueTicks * 5000
  /\ now' = now + 5000
  /\ UNCHANGED <<calls, jobs, req, tenants, res, stats, source, http>>

NextQueue ==
  \/ \E data \in QueueJobData : publishJob(data)
  \/ \E j \in DOMAIN jobs : WorkerTake(j)
  \/ \E j \in DOMAIN jobs : WorkerComplete(j)
  \/ \E j \in DOMAIN jobs : WorkerFail(j)
  \/ \E j \in DOMAIN jobs : PromoteDelayed(j)
  \/ QueueTick

SpecQueue == InitQueue /\ [][NextQueue]_vars

\* The broker's delay timer: time moves on to the moment the next backoff
\* runs out.  In SpecQueueFair time passes in no other way.
DelayElapses ==
  /\ \E j \in DOMAIN jobs : jobs[j].state = "delayed" /\ jobs[j].delayedUntil > now
  /\ now' = CHOOSE t \in {jobs[j].delayedUntil : j \in JobsInState(jobs, "delayed")} :
              /\ t > now
              /\ \A j \in JobsInState(jobs, "delayed") :
                    jobs[j].delayedUntil > now => t <= jobs[j].delayedUntil
  /\ UNCHANGED <<calls, jobs, req, tenants, res, stats, source, http>>

\* The moments a job can be published at, and the job ids they give.
QueueTimes == {k * 5000 : k \in 0..(attempts * MaxJobs)}

QueueJobIds == {JobId(data.callId, t) : data \in QueueJobData, t \in QueueTimes}

\* The steps of the worker and of the broker.
TakenByWorker == \E j \in DOMAIN jobs : WorkerTake(j)

SettledByWorker == \E j \in DOMAIN jobs : WorkerComplete(j) \/ WorkerFail(j)

PromotedByBroker == \E j \in DOMAIN jobs : PromoteDelayed(j)

NextQueueFair ==
  \/ \E data \in QueueJobData : publishJob(data)
  \/ TakenByWorker
  \/ SettledByWorker
  \/ PromotedByBroker
  \/ DelayElapses

\* The worker takes a job whenever one waits and it is free, the analysis
\* it awaits settles and it marks the job, and the broker's timers fire.
\* Nothing obliges a caller to publish or time to pass otherwise.
FairQueue ==
  /\ WF_vars(TakenByWorker)
  /\ WF_vars(SettledByWorker)
  /\ WF_vars(PromotedByBroker)
  /\ WF_vars(DelayElapses)

SpecQueueFair == InitQueue /\ [][NextQueueFair]_vars /\ FairQueue

\* The queue observed from a moment at which it holds its backlog.
InitRetention ==
  /\ calls = <<>>
  /\ \E n \in BacklogSizes, failed \in SUBSET FailedBacklog :
       jobs = [j \in CompletedBacklog(n) \cup failed |-> BacklogJob(j)]
  /\ now = 3600000
  /\ req = [r \in Requests |-> IdleRequest]
  /\ tenants = businesses
  /\ res = IdleResolution
  /\ stats = NoStats
  /\ source = Payloads
  /\ http = NoHttp

NextRetention ==
  \/ \E data \in QueueJobData : publishJob(data)
  \/ \E j \in DOMAIN jobs \ Backlog : WorkerTake(j)
  \/ \E j \in DOMAIN jobs \ Backlog : WorkerComplete(j)
  \/ \E j \in DOMAIN jobs \ Backlog : WorkerFail(j)
  \/ \E j \in DOMAIN jobs \ Backlog : PromoteDelayed(j)
  \/ cleanupQueue
  \/ DayPasses

SpecRetention == InitRetention /\ [][NextRetention]_vars

(***************************************************************************)
(* getQueueStats, while the worker goes on.  Its five counts are five      *)
(* queries to the broker, answered one after the other in the order they   *)
(* were sent; the worker's steps fall before, between and after them.      *)
(***************************************************************************)

\* getWaitingCount, getActiveCount, getCompletedCount, getFailedCount,
\* getDelayedCount, in the order of the Promise.all.
CountOrder == <<"waiting", "active", "completed", "failed", "delayed">>

\* getQueueStats is called: the five queries are sent.
CallGetQueueStats ==
  /\ stats.result # "pending"
  /\ stats' = [NoStats EXCEPT !.result = "pending", !.next = 1]
  /\ UNCHANGED <<calls, jobs, now, req, tenants, res, source, http>>

\* The broker answers the next query.
CountAnswered ==
  /\ stats.result = "pending"
  /\ stats.next <= Len(CountOrder)
  /\ LET type == CountOrder[stats.next]
         counted == JobsInState(jobs, type)
     IN stats' = [stats EXCEPT ![type] = Cardinality(counted),
                               !.counted = @ \cup {<<j, type>> : j \in counted},
                               !.next = @ + 1]
  /\ UNCHANGED <<calls, jobs, now, req, tenants, res, source, http>>

\* Variant: total leaves the delayed jobs out.
StatsReturned_TotalWithoutDelayed ==
  /\ stats.result = "pending"
  /\ stats.next > Len(CountOrder)
  /\ stats' = [stats EXCEPT !.result = "stats",
                            !.total = stats.waiting + stats.active + stats.completed
                                        + stats.failed]
  /\ UNCHANGED <<calls, jobs, now, req, tenants, res, source, http>>

\* All five answers are in: the stats object is returned.
StatsReturned ==
  /\ stats.result = "pending"
  /\ stats.next > Len(CountOrder)
  /\ stats' = [stats EXCEPT !.result = "stats",
                            !.total = stats.waiting + stats.active + stats.completed
                                        + stats.failed + stats.delayed]
  /\ UNCHANGED <<calls, jobs, now, req, tenants, res, source, http>>

\* A query is rejected (the connection to the broker was given up): the
\* catch returns null.
StatsUnavailable ==
  /\ stats.result = "pending"
  /\ stats.next <= Len(CountOrder)
  /\ stats' = [NoStats EXCEPT !.result = "null", !.elapsed = stats.elapsed]
  /\ UNCHANGED <<calls, jobs, now, req, tenants, res, source, http>>

\* Variant: the timeout is a second longer.
statsTimeout_Longer == 3000 + 1000

\* setTimeout(..., 3000)
statsTimeout == 3000

\* A second goes by while answers are outstanding and the timer has not
\* run out.
StatsWait ==
  /\ stats.result = "pending"
  /\ stats.next <= Len(CountOrder)
  /\ stats.elapsed < statsTimeout
  /\ stats' = [stats EXCEPT !.elapsed = @ + 1000]
  /\ UNCHANGED <<calls, jobs, now, req, tenants, res, source, http>>

\* The timer runs out before all answers are in: the race rejects and the
\* catch returns null.
StatsTimeout ==
  /\ stats.result = "pending"
  /\ stats.next <= Len(CountOrder)
  /\ stats.elapsed >= statsTimeout
  /\ stats' = [NoStats EXCEPT !.result = "null", !.elapsed = stats.elapsed]
  /\ UNCHANGED <<calls, jobs, now, req, tenants, res, source, http>>

\* What a job published at 0 can be at 15000: never taken; waiting for its
\* third attempt; delayed after a first failure at 15000; failed for the
\* third time at 15000; completed at 0.
JobSnapshots ==
  LET job == [callId |-> "c1", businessId |-> "demo-001",
              assistantId |-> "asst_demo_12345", state |-> "waiting",
              attemptsMade |-> 0, delay |-> 0, delayedUntil |-> 0, finishedOn |-> 0]
  IN { job,
       [job EXCEPT !.attemptsMade = 2, !.delay = BackoffDelay(2)],
       [job EXCEPT !.state = "delayed", !.attemptsMade = 1, !.delay = BackoffDelay(1),
                   !.delayedUntil = 15000 + BackoffDelay(1)],
       [job EXCEPT !.state = "failed", !.attemptsMade = attempts,
                   !.delay = BackoffDelay(attempts - 1), !.finishedOn = 15000],
       [job EXCEPT !.state = "completed", !.attemptsMade = 1] }

StatsJobIds == {JobId(c, 0) : c \in CallIds}

InitStats ==
  /\ calls = <<>>
  /\ \E ids \in SUBSET StatsJobIds : \E snapshot \in [ids -> JobSnapshots] :
       jobs = [j \in ids |-> [snapshot[j] EXCEPT !.callId = j[1]]]
  /\ now = 15000
  /\ req = [r \in Requests |-> IdleRequest]
  /\ tenants = businesses
  /\ res = IdleResolution
  /\ stats = NoStats
  /\ source = Payloads
  /\ http = NoHttp

NextStats ==
  \/ CallGetQueueStats
  \/ CountAnswered
  \/ StatsReturned
  \/ StatsUnavailable
  \/ \E j \in DOMAIN jobs : WorkerTake(j)
  \/ \E j \in DOMAIN jobs : WorkerComplete(j)
  \/ \E j \in DOMAIN jobs : WorkerFail(j)

SpecStats == InitStats /\ [][NextStats]_vars

(***************************************************************************)
(* GET /health and GET /queue/stats.  Each awaits getQueueStats and then   *)
(* answers.  Of the /health body the fields status, queue and checks are   *)
(* kept; timestamp, uptime, version and environment do not depend on the   *)
(* queue.                                                                  *)
(***************************************************************************)

\* The object getQueueStats returned.
StatsObject(s) ==
  [waiting |-> s.waiting, active |-> s.active, completed |-> s.completed,
   failed |-> s.failed, delayed |-> s.delayed, total |-> s.total]

\* Variant: a degraded service answers 503.
HealthStatus_Unavailable(s) == IF s.result = "stats" THEN 200 ELSE 503

\* status: 200, always
HealthStatus(s) == 200

\* The body of /health for the value s.result getQueueStats returned:
\* redisHealthy = queueStats !== null.
HealthBody(s) ==
  LET redisHealthy == s.result # "null"
  IN [status |-> IF redisHealthy THEN "healthy" ELSE "degraded",
      queue |-> IF s.result # "null" THEN StatsObject(s)
                ELSE [error |-> "Redis unavailable"],
      checks |-> [database |-> TRUE, redis |-> redisHealthy]]

\* JSON.stringify(stats)
QueueStatsBody(s) == IF s.result # "null" THEN StatsObject(s) ELSE NULL

Routes == {"/health", "/queue/stats"}

\* A request arrives and the handler calls getQueueStats.
MonitorRequest(route) ==
  /\ http.pc # "awaiting"
  /\ stats.result # "pending"
  /\ http' = [NoHttp EXCEPT !.route = route, !.pc = "awaiting"]
  /\ stats' = [NoStats EXCEPT !.result = "pending", !.next = 1]
  /\ UNCHANGED <<calls, jobs, now, req, tenants, res, source>>

\* getQueueStats has returned: /health answers.
HealthRespond ==
  /\ http.route = "/health"
  /\ http.pc = "awaiting"
  /\ stats.result \in {"stats", "null"}
  /\ http' = [http EXCEPT !.pc = "done", !.status = HealthStatus(stats),
                          !.body = HealthBody(stats)]
  /\ UNCHANGED <<calls, jobs, now, req, tenants, res, stats, source>>

\* getQueueStats has returned: /queue/stats answers.
QueueStatsRespond ==
  /\ http.route = "/queue/stats"
  /\ http.pc = "awaiting"
  /\ stats.result \in {"stats", "null"}
  /\ http' = [http EXCEPT !.pc = "done", !.status = 200,
                          !.body = QueueStatsBody(stats)]
  /\ UNCHANGED <<calls, jobs, now, req, tenants, res, stats, source>>

\* The monitoring endpoints beside a queue in use.
NextHealth ==
  \/ \E route \in Routes : MonitorRequest(route)
  \/ HealthRespond
  \/ QueueStatsRespond
  \/ CountAnswered
  \/ StatsReturned
  \/ StatsUnavailable
  \/ StatsWait
  \/ StatsTimeout

SpecHealth == InitStats /\ [][NextHealth]_vars

\* Time goes by, the timer callback runs when the timer has run out, and the
\* continuation of a settled promise runs; the broker is not bound to
\* answer.
FairHealth ==
  /\ WF_vars(StatsWait)
  /\ WF_vars(StatsTimeout)
  /\ WF_vars(StatsReturned)
  /\ WF_vars(HealthRespond)
  /\ WF_vars(QueueStatsRespond)

SpecHealthFair == InitStats /\ [][NextHealth]_vars /\ FairHealth

(***************************************************************************)
(* The job id as the string publishJob builds.  Elsewhere the id is the    *)
(* pair JobId(callId, t) this string stands for.                           *)
(***************************************************************************)

Digit(d) == <<"0", "1", "2", "3", "4", "5", "6", "7", "8", "9">>[d + 1]

\* The decimal digits of a number that is not negative.
RECURSIVE Digits(_)
Digits(n) == IF n < 10 THEN <<Digit(n)>> ELSE Digits(n \div 10) \o <<Digit(n % 10)>>

\* Variant: call id and instant are joined without a separator.
JobIdString_NoSeparator(callId, t) == callId \o Digits(t)

\* Variant: the job id is the call id alone.
JobIdString_CallIdOnly(callId, t) == callId

\* `${data.callId}-${Date.now()}`, as a sequence of characters
JobIdString(callId, t) == callId \o <<"-">> \o Digits(t)

\* Call ids: strings of letters, digits and hyphens.
IdChars == {"c", "1", "-"}

CallIdStrings == UNION {[1..n -> IdChars] : n \in 1..MaxIdLen}

\* Enqueue instants, in milliseconds.
IdTimes == {0, 1, 11}

EnqueueInputs == [callId : CallIdStrings, t : IdTimes]

\* Two calls of publishJob are about to be made.
InitJobIds ==
  /\ calls = <<>>
  /\ jobs = <<>>
  /\ now = 0
  /\ req = [r \in Requests |-> IdleRequest]
  /\ tenants = businesses
  /\ res \in { [pc |-> "start", fn |-> "publishJob", enqueues |-> <<first, second>>,
                 returned |-> <<>>] :
                 first \in EnqueueInputs, second \in EnqueueInputs }
  /\ stats = NoStats
  /\ source = Payloads
  /\ http = NoHttp

EnqueueData(input) ==
  [callId |-> input.callId, businessId |-> "demo-001", assistantId |-> "asst_demo_12345"]

\* Both calls are made, each at its instant: the queue holds what
\* Queue.add made of the two ids, and each call returns job.id of the job
\* Queue.add resolved with, which for an id the queue already holds is the
\* job it holds.
CallPublishJobTwice ==
  /\ res.pc = "start"
  /\ res.fn = "publishJob"
  /\ LET first == res.enqueues[1]
         second == res.enqueues[2]
     IN jobs' = QueueAdd(QueueAdd(jobs, JobIdString(first.callId, first.t),
                                  EnqueueData(first)),
                         JobIdString(second.callId, second.t), EnqueueData(second))
  /\ res' = [res EXCEPT !.pc = "done",
                         !.returned = <<JobIdString(res.enqueues[1].callId, res.enqueues[1].t),
                                        JobIdString(res.enqueues[2].callId, res.enqueues[2].t)>>]
  /\ UNCHANGED <<calls, now, req, tenants, stats, source, http>>

NextJobIds == CallPublishJobTwice

SpecJobIds == InitJobIds /\ [][NextJobIds]_vars

(***************************************************************************)
(* serveStaticFile.  A pathname is a string of characters; a file system   *)
(* path is a sequence of segments, each a string.                          *)
(***************************************************************************)

MaxPathLen == 5

Slash == "/"

\* String.prototype.includes(part)
Includes(string, part) ==
  \E i \in 1..(Len(string) - Len(part) + 1) :
    SubSeq(string, i, i + Len(part) - 1) = part

\* path.normalize of an absolute path: empty and "." segments are dropped,
\* ".." drops the segment before it, and nothing at the root.
RECURSIVE NormalizeSegments(_, _)
NormalizeSegments(done, rest) ==
  IF rest = <<>> THEN done
  ELSE LET segment == Head(rest)
       IN IF segment = <<>> \/ segment = <<Dot>>
          THEN NormalizeSegments(done, Tail(rest))
          ELSE IF segment = <<Dot, Dot>>
          THEN NormalizeSegments(IF done = <<>> THEN done
                                 ELSE SubSeq(done, 1, Len(done) - 1), Tail(rest))
          ELSE NormalizeSegments(Append(done, segment), Tail(rest))

\* process.cwd(), the directory the server is started in
Cwd == << <<"a", "p", "p">>, <<"s", "r", "c">> >>

\* join(process.cwd(), '../public', pathname)
StaticFilePath(pathname) ==
  NormalizeSegments(<<>>, Cwd \o << <<Dot, Dot>>, <<"p", "u", "b", "l", "i", "c">> >>
                            \o Split(pathname, Slash))

PublicDir == NormalizeSegments(<<>>, Cwd \o << <<Dot, Dot>>, <<"p", "u", "b", "l", "i", "c">> >>)

IsUnder(dir, path) == Len(path) > Len(dir) /\ SubSeq(path, 1, Len(dir)) = dir

\* The files of the machine and what they hold: two under the public
\* directory, one beside it, one in the directory of the sources.
Files ==
  (PublicDir \o << <<"a">> >>) :> "public/a"
    @@ (PublicDir \o << <<"a", "a">>, <<"a">> >>) :> "public/aa/a"
    @@ << <<"a", "p", "p">>, <<"a">> >> :> "app/a"
    @@ (Cwd \o << <<"a">> >>) :> "app/src/a"

\* Pathnames: a slash and up to MaxPathLen - 1 further characters.
PathChars == {Slash, Dot, "a"}

Pathnames == {<<Slash>> \o tail : tail \in UNION {[1..n -> PathChars] : n \in 0..(MaxPathLen - 1)}}

StaticResponse(status, body, read) == [status |-> status, body |-> body, read |-> read]

\* Variant: the pathname is not checked for '..'.
serveStaticFile_NoTraversalCheck(pathname, readOk) ==
  LET filePath == StaticFilePath(pathname)
  IN IF readOk /\ filePath \in DOMAIN Files
     THEN StaticResponse(200, Files[filePath], filePath)
     ELSE StaticResponse(404, "Not Found", filePath)

\* serveStaticFile(pathname): 403 for a pathname with '..' in it; otherwise
\* the file at the joined path is read, and its content answered with 200;
\* readFile rejects when there is no file at the path or the read fails
\* (readOk), and the catch answers 404.
serveStaticFile(pathname, readOk) ==
  IF Includes(pathname, <<Dot, Dot>>) THEN StaticResponse(403, "Forbidden", <<>>)
  ELSE LET filePath == StaticFilePath(pathname)
       IN IF readOk /\ filePath \in DOMAIN Files
          THEN StaticResponse(200, Files[filePath], filePath)
          ELSE StaticResponse(404, "Not Found", filePath)

\* serveStaticFile is called, once.
CallServeStaticFile ==
  /\ http.pc = "idle"
  /\ \E pathname \in Pathnames, readOk \in BOOLEAN :
       LET response == serveStaticFile(pathname, readOk)
       IN http' = [route |-> "static", pc |-> "done", status |-> response.status,
                   body |-> [pathname |-> pathname, readOk |-> readOk,
                             response |-> response]]
  /\ UNCHANGED <<calls, jobs, now, req, tenants, res, stats, source>>

InitStatic ==
  /\ calls = <<>>
  /\ jobs = <<>>
  /\ now = 0
  /\ req = [r \in Requests |-> IdleRequest]
  /\ tenants = businesses
  /\ res = IdleResolution
  /\ stats = NoStats
  /\ source = Payloads
  /\ http = NoHttp

NextStatic == CallServeStaticFile

SpecStatic == InitStatic /\ [][NextStatic]_vars

(***************************************************************************)
(* normalizeAnalysis over the raw responses the model may give.            *)
(***************************************************************************)

MaxItems == 2

\* Numbers of a response, in hundredths: around the thresholds of the
\* label, around the ends of both ranges, with and without a fraction.
RawNumbers == {-25000, -100, -31, -30, 0, 30, 31, 100, 4570, 10000, 10050, 25000}

\* What a numeric field of the response may hold.
RawNumerics ==
  {Json(type, n) : type \in {"number", "numeric string", "string with a numeric prefix"},
                   n \in RawNumbers}
    \cup {Undefined, Json("null", 0), Json("boolean", TRUE), Json("string", "high"),
          Json("object", 0), Json("array", <<>>),
          Json("array", <<Json("number", 9000)>>),
          Json("array", <<Json("string", "high"), Json("number", 9000)>>)}

\* What sentiment_label may hold.
RawLabels ==
  {Json("string", label) : label \in {"positive", "neutral", "negative", "mixed", ""}}
    \cup {Undefined, Json("null", 0), Json("number", 100),
          Json("array", <<Json("string", "positive")>>)}

\* What a list field of the response may hold.
RawItems == {Json("string", "crown"), Json("string", "pricing"), Json("number", 700),
             Json("null", 0)}

RawLists ==
  {Json("array", items) : items \in UNION {[1..n -> RawItems] : n \in 0..MaxItems}}
    \cup {Undefined, Json("string", "crown"), Json("null", 0)}

\* The raw responses: every score with every label and every opportunity
\* value, and every pair of lists.
RawResponses ==
  { [sentiment_score |-> score, sentiment_label |-> label,
     products_mentioned |-> Json("array", <<Json("string", "crown")>>),
     issues_identified |-> Undefined,
     opportunity_value |-> opportunity, summary |-> Undefined]
      : score \in RawNumerics, label \in RawLabels, opportunity \in RawNumerics }
  \cup
  { [sentiment_score |-> Json("number", 50), sentiment_label |-> Undefined,
     products_mentioned |-> products, issues_identified |-> issues,
     opportunity_value |-> Json("number", 5000), summary |-> Json("string", "a call")]
      : products \in RawLists, issues \in RawLists }

\* normalizeAnalysis is called, once.
CallNormalizeAnalysis ==
  /\ http.pc = "idle"
  /\ \E raw \in RawResponses :
       http' = [route |-> "normalizeAnalysis", pc |-> "done", status |-> 0,
                body |-> [raw |-> raw, analysis |-> normalizeAnalysis(raw)]]
  /\ UNCHANGED <<calls, jobs, now, req, tenants, res, stats, source>>

NextAnalysis == CallNormalizeAnalysis

SpecAnalysis == InitStatic /\ [][NextAnalysis]_vars

(***************************************************************************)
(* batchAnalyzeCalls.  http.body holds the locals of the one invocation:   *)
(* the arguments calls and concurrency, the loop index i, the promises of  *)
(* the batch in flight, and results; outcomes records, for each call, how  *)
(* its analysis ended.                                                     *)
(***************************************************************************)

MaxBatchCalls == 3

MaxConcurrency == 2

\* calls.slice(i, i + concurrency), i counted from 0
Slice(array, from, to) ==
  SubSeq(array, from + 1, IF to < Len(array) THEN to ELSE Len(array))

\* A promise of the batch: pending, fulfilled with a result, or rejected.
PendingPromise(call) == [call |-> call, state |-> "pending", result |-> NULL]

\* Variant: the failure of a call is thrown on.
AnalyzeInBatch_Rethrows(call, completion) ==
  LET outcome == analyzeCallWithGPT(completion)
  IN IF outcome.threw
     THEN [call |-> call, state |-> "rejected", result |-> NULL]
     ELSE [call |-> call, state |-> "fulfilled",
           result |-> [id |-> call.id, analysis |-> outcome.analysis]]

\* The callback of batch.map: the analysis of the call, or, when
\* analyzeCallWithGPT throws, the default analysis and the message.
AnalyzeInBatch(call, completion) ==
  LET outcome == analyzeCallWithGPT(completion)
  IN IF outcome.threw
     THEN [call |-> call, state |-> "fulfilled",
           result |-> [id |-> call.id, analysis |-> getDefaultAnalysis,
                       error |-> completion.kind]]
     ELSE [call |-> call, state |-> "fulfilled",
           result |-> [id |-> call.id, analysis |-> outcome.analysis]]

BatchInputs ==
  UNION {[1..n -> {[id |-> c] : c \in CallIds}] : n \in 0..MaxBatchCalls}

\* The loop condition holds: the next batch is sliced and every call of it
\* is started.
BatchStart ==
  /\ http.route = "batchAnalyzeCalls" /\ http.pc = "loop"
  /\ http.body.i < Len(http.body.calls)
  /\ LET batch == Slice(http.body.calls, http.body.i, http.body.i + http.body.concurrency)
     IN http' = [http EXCEPT !.pc = "awaiting",
                             !.body.batch = [k \in DOMAIN batch |-> PendingPromise(batch[k])]]
  /\ UNCHANGED <<calls, jobs, now, req, tenants, res, stats, source>>

\* One call of the batch in flight ends, in some completion.
BatchCallSettles ==
  /\ http.route = "batchAnalyzeCalls" /\ http.pc = "awaiting"
  /\ \E k \in DOMAIN http.body.batch, completion \in Completions :
       /\ http.body.batch[k].state = "pending"
       /\ http' = [http EXCEPT
            !.body.batch[k] = AnalyzeInBatch(http.body.batch[k].call, completion),
            !.body.outcomes[http.body.i + k] =
               IF analyzeCallWithGPT(completion).threw THEN "threw" ELSE "analysed"]
  /\ UNCHANGED <<calls, jobs, now, req, tenants, res, stats, source>>

\* Promise.all settles: rejected when a promise of the batch is, otherwise
\* the results are pushed in the order of the batch, and a second is waited
\* when calls remain.
BatchCollect ==
  /\ http.route = "batchAnalyzeCalls" /\ http.pc = "awaiting"
  /\ LET batch == http.body.batch
     IN IF \E k \in DOMAIN batch : batch[k].state = "rejected"
        THEN http' = [http EXCEPT !.pc = "threw"]
        ELSE /\ \A k \in DOMAIN batch : batch[k].state = "fulfilled"
             /\ http' = [http EXCEPT
                  !.body.results = @ \o [k \in DOMAIN batch |-> batch[k].result],
                  !.body.batch = <<>>,
                  !.body.i = IF @ + http.body.concurrency < Len(http.body.calls)
                             THEN @ ELSE @ + http.body.concurrency,
                  !.pc = IF http.body.i + http.body.concurrency < Len(http.body.calls)
                         THEN "sleeping" ELSE "loop"]
  /\ UNCHANGED <<calls, jobs, now, req, tenants, res, stats, source>>

\* The second between two batches has passed.
BatchSleepEnds ==
  /\ http.route = "batchAnalyzeCalls" /\ http.pc = "sleeping"
  /\ http' = [http EXCEPT !.body.i = @ + http.body.concurrency, !.pc = "loop"]
  /\ UNCHANGED <<calls, jobs, now, req, tenants, res, stats, source>>

\* The loop condition fails: results is returned.
BatchReturn ==
  /\ http.route = "batchAnalyzeCalls" /\ http.pc = "loop"
  /\ http.body.i >= Len(http.body.calls)
  /\ http' = [http EXCEPT !.pc = "returned"]
  /\ UNCHANGED <<calls, jobs, now, req, tenants, res, stats, source>>

InitBatch ==
  /\ calls = <<>>
  /\ jobs = <<>>
  /\ now = 0
  /\ req = [r \in Requests |-> IdleRequest]
  /\ tenants = businesses
  /\ res = IdleResolution
  /\ stats = NoStats
  /\ source = Payloads
  /\ \E input \in BatchInputs, concurrency \in 1..MaxConcurrency :
       http = [route |-> "batchAnalyzeCalls", pc |-> "loop", status |-> 0,
               body |-> [calls |-> input, concurrency |-> concurrency, i |-> 0,
                         batch |-> <<>>, results |-> <<>>,
                         outcomes |-> [k \in DOMAIN input |-> "pending"]]]

NextBatch ==
  \/ BatchStart
  \/ BatchCallSettles
  \/ BatchCollect
  \/ BatchSleepEnds
  \/ BatchReturn

SpecBatch == InitBatch /\ [][NextBatch]_vars

(***************************************************************************)
(* The pipeline: ingestion, the queue and the worker together.  Upstream   *)
(* delivers and redelivers the end of the call "c1" of the demo business,   *)
(* with or without analysis values in the call object.                     *)
(***************************************************************************)

MaxPipelineJobs == 2

PipelinePayloads ==
  { [body |-> "object", type |-> "call.ended", hasCall |-> TRUE, id |-> "c1",
     assistantId |-> "asst_demo_12345", signature |-> "valid", analysis |-> a] :
       a \in {NULL, PayloadAnalysis} }

InitPipeline ==
  /\ calls = <<>>
  /\ jobs = <<>>
  /\ now = 0
  /\ req = [r \in Requests |-> IdleRequest]
  /\ tenants = businesses
  /\ res = IdleResolution
  /\ stats = NoStats
  /\ source = PipelinePayloads
  /\ http = NoHttp

\* Reconciliation outside the core publishes a job for a call that has a
\* row.
Backfill(i) ==
  /\ Cardinality(DOMAIN jobs) < MaxPipelineJobs
  /\ JobId(calls[i].id, now) \notin DOMAIN jobs
  /\ jobs' = QueueAdd(jobs, JobId(calls[i].id, now),
                      [callId |-> calls[i].id, businessId |-> calls[i].business_id,
                       assistantId |-> calls[i].assistant_id])
  /\ UNCHANGED <<calls, now, req, tenants, res, stats, source, http>>

NextPipeline ==
  \/ \E r \in Requests :
       \/ ReceiveAccepted(r)
       \/ InsertOk(r)
       \/ InsertConflict(r)
       \/ InsertFail(r)
       \/ PublishOk(r)
       \/ PublishFail(r)
  \/ \E j \in DOMAIN jobs : WorkerTake(j)
  \/ \E j \in DOMAIN jobs : WorkerComplete(j)
  \/ \E j \in DOMAIN jobs : WorkerFail(j)
  \/ \E j \in DOMAIN jobs : PromoteDelayed(j)
  \/ QueueTick

SpecPipeline == InitPipeline /\ [][NextPipeline]_vars

\* The handler's continuation runs when the insert or the publish it awaits
\* has settled; nothing obliges the worker or the broker to act.
FairHandler ==
  \A r \in Requests :
    /\ WF_vars(InsertOk(r) \/ InsertConflict(r) \/ InsertFail(r))
    /\ WF_vars(PublishOk(r) \/ PublishFail(r))

SpecPipelineFair == InitPipeline /\ [][NextPipeline]_vars /\ FairHandler

\* validateVapiSignature(signature, body): true when the header is absent,
\* and true otherwise; the HMAC comparison is commented out.
validateVapiSignature(signature, body) ==
  IF signature = "absent" THEN TRUE ELSE TRUE

\* Deliveries of the end of a call with each kind of signature header.
\* handleVapiWebhook reads no header and does not call
\* validateVapiSignature.
SignedPayloads ==
  { [body |-> "object", type |-> "call.ended", hasCall |-> TRUE, id |-> c,
     assistantId |-> "asst_demo_12345", signature |-> s, analysis |-> NULL] :
       c \in CallIds, s \in {"absent", "valid", "forged"} }

InitSignature ==
  /\ calls = <<>>
  /\ jobs = <<>>
  /\ now = 0
  /\ req = [r \in Requests |-> IdleRequest]
  /\ tenants = businesses
  /\ res = IdleResolution
  /\ stats = NoStats
  /\ source = SignedPayloads
  /\ http = NoHttp

\* Handler executions for accepted deliveries, interleaved at their awaits.
NextDeliveries ==
  \/ \E r \in Requests :
       \/ ReceiveAccepted(r)
       \/ InsertOk(r)
       \/ InsertConflict(r)
       \/ InsertFail(r)
       \/ PublishOk(r)
       \/ PublishFail(r)
  \/ Tick

SpecSignature == InitSignature /\ [][NextDeliveries]_vars

\* Concurrent deliveries of the ends of the calls "c1" and "c2".
ConcurrentPayloads ==
  { [body |-> "object", type |-> t, hasCall |-> TRUE, id |-> c,
     assistantId |-> "asst_demo_12345", signature |-> "valid", analysis |-> NULL] :
       t \in {"call.ended", "end-of-call-report"}, c \in CallIds }

InitConcurrent ==
  /\ calls = <<>>
  /\ jobs = <<>>
  /\ now = 0
  /\ req = [r \in Requests |-> IdleRequest]
  /\ tenants = businesses
  /\ res = IdleResolution
  /\ stats = NoStats
  /\ source = ConcurrentPayloads
  /\ http = NoHttp

SpecConcurrent == InitConcurrent /\ [][NextDeliveries]_vars

\* The core: the webhook beside the monitoring endpoints.
NextCore ==
  \/ \E r \in Requests :
       \/ ReceiveAccepted(r)
       \/ InsertOk(r)
       \/ InsertConflict(r)
       \/ InsertFail(r)
       \/ PublishOk(r)
       \/ PublishFail(r)
  \/ \E route \in Routes : MonitorRequest(route)
  \/ HealthRespond
  \/ QueueStatsRespond
  \/ CountAnswered
  \/ StatsReturned
  \/ StatsUnavailable
  \/ StatsWait
  \/ StatsTimeout

SpecCore == InitPipeline /\ [][NextCore]_vars

\* The pipeline from the moment the first delivery of the call "c1" has been
\* handled: its row is in the table and its job is waiting.  Upstream
\* redelivers the event once, and reconciliation publishes further jobs for
\* the call.
DeliveredCall ==
  [body |-> "object", type |-> "call.ended", hasCall |-> TRUE, id |-> "c1",
   assistantId |-> "asst_demo_12345", signature |-> "valid", analysis |-> NULL]

InitWorker ==
  /\ tenants = businesses
  /\ calls = <<NewCallRow(DeliveredCall, getBusinessByAssistantId(DeliveredCall.assistantId))>>
  /\ jobs = QueueAdd(<<>>, JobId(DeliveredCall.id, 0),
                     [callId |-> DeliveredCall.id, businessId |-> "demo-001",
                      assistantId |-> DeliveredCall.assistantId])
  /\ now = 0
  /\ req = [r \in Requests |-> IdleRequest]
  /\ res = IdleResolution
  /\ stats = NoStats
  /\ source = PipelinePayloads
  /\ http = NoHttp

\* The first of the handler executions takes the redelivery.
NextWorker ==
  \/ ReceiveAccepted(1)
  \/ InsertConflict(1)
  \/ InsertFail(1)
  \/ \E i \in 1..Len(calls) : Backfill(i)
  \/ \E j \in DOMAIN jobs : WorkerTake(j)
  \/ \E j \in DOMAIN jobs : WorkerComplete(j)
  \/ \E j \in DOMAIN jobs : WorkerFail(j)
  \/ \E j \in DOMAIN jobs : PromoteDelayed(j)
  \/ QueueTick

SpecWorker == InitWorker /\ [][NextWorker]_vars

(***************************************************************************)
(* Properties of the ingestion path.                                       *)
(***************************************************************************)

Done(r) == req[r].pc = "done"

\* The accepted event types and the presence of a call object, read off the
\* payload alone.
IsCallEndedEvent(p) ==
  p.body = "object" /\ p.type \in {"call.ended", "end-of-call-report"} /\ p.hasCall

\* No business row carries the assistant id.
MatchesNoTenant(assistantId) ==
  \A b \in tenants : b.vapi_assistant_id # assistantId

JobsOfCall(id) == {j \in DOMAIN jobs : jobs[j].callId = id}

LiveJobsOfCall(id) ==
  {j \in JobsOfCall(id) : jobs[j].state \in {"waiting", "delayed", "active"}}

\* C1: every handler execution that has finished has answered, with HTTP
\* 200 and received = true, whatever the body was and whatever the lookup,
\* the insert and the publish did; no execution ends without a response.
C1_AlwaysAnswers200 ==
  \A r \in Requests :
    Done(r) => /\ req[r].response # NoResponse
               /\ req[r].response.status = 200
               /\ req[r].response.received

\* An unparseable body was answered by the outer catch and another request
\* was answered after its publish failed.
C1_Witness ==
  \E r, s \in Requests :
    /\ Done(r) /\ req[r].payload.body \in {"invalid", "null"}
    /\ req[r].response.error = "Internal error"
    /\ Done(s) /\ req[s].publish = "failed"

\* C2: no call id ever has more than one row or more than one live
\* (waiting, delayed or active) job; and when the same accepted payload was
\* delivered twice and the datastore answered both inserts (accepted or
\* primary-key conflict), exactly one row has its id.
C2_RedeliveryOneRowOneJob ==
  /\ \A id \in CallIds :
       /\ Cardinality(RowsWithId(id)) <= 1
       /\ Cardinality(LiveJobsOfCall(id)) <= 1
  /\ \A r, s \in Requests :
       ( /\ r # s /\ Done(r) /\ Done(s)
         /\ req[r].payload = req[s].payload
         /\ IsCallEndedEvent(req[r].payload)
         /\ req[r].insert \in {"ok", "conflict"}
         /\ req[s].insert \in {"ok", "conflict"} )
       => Cardinality(RowsWithId(req[r].payload.id)) = 1

\* The same payload was delivered twice: the first delivery inserted the row
\* and enqueued its job, the second ran into the existing row.
C2_Witness ==
  \E r, s \in Requests :
    /\ r # s /\ Done(r) /\ Done(s)
    /\ req[r].payload = req[s].payload
    /\ req[r].insert = "ok" /\ req[r].publish = "ok"
    /\ req[s].insert = "conflict"
    /\ Cardinality(LiveJobsOfCall(req[r].payload.id)) = 1

\* C3 (as claimed): a delivery whose call id already has a row is answered
\* without an error field and leaves the single existing row in place.
C3_RedeliveryNotAnError ==
  \A r \in Requests :
    (Done(r) /\ req[r].insert = "conflict")
    => /\ req[r].response.error = None
       /\ Cardinality(RowsWithId(req[r].payload.id)) = 1

\* C4 (as claimed): every execution whose insert was accepted, or was a
\* no-op because the row already existed, has attempted to publish a job by
\* the time it answers.
C4_EnqueueAfterEveryInsert ==
  \A r \in Requests :
    (Done(r) /\ req[r].insert \in {"ok", "conflict"}) => req[r].publish # None

\* C5: an event whose assistant id no business row carries is answered with
\* HTTP 200 without an insert or a publish attempt, and no row and no job
\* ever carries such an assistant id.
C5_UnknownAssistantNotPersisted ==
  /\ \A r \in Requests :
       (IsCallEndedEvent(req[r].payload) /\ MatchesNoTenant(req[r].payload.assistantId))
       => /\ req[r].pc \in {"idle", "done"}
          /\ req[r].insert = None
          /\ req[r].publish = None
          /\ Done(r) => req[r].response.status = 200
  /\ \A i \in 1..Len(calls) : ~MatchesNoTenant(calls[i].assistant_id)
  /\ \A j \in DOMAIN jobs : ~MatchesNoTenant(jobs[j].assistantId)

\* An event with an unknown assistant id was answered while another event
\* had been persisted and enqueued.
C5_Witness ==
  \E r, s \in Requests :
    /\ Done(r) /\ IsCallEndedEvent(req[r].payload)
    /\ MatchesNoTenant(req[r].payload.assistantId)
    /\ req[r].response.error = "Unknown assistant"
    /\ req[s].publish = "ok"

\* C6: the step that receives a payload of another type, or one without a
\* call object, finishes the execution at once: it leaves the calls table
\* and the queue as they were and looks up no tenant.
C6_IgnoredPayloadChangesNothing ==
  [][ \A r \in Requests :
        ( /\ req[r].pc = "idle" /\ req'[r].pc # "idle"
          /\ req'[r].payload.body = "object"
          /\ ~IsCallEndedEvent(req'[r].payload) )
        => /\ calls' = calls
           /\ jobs' = jobs
           /\ req'[r].pc = "done"
           /\ ~req'[r].lookedUp
           /\ req'[r].insert = None /\ req'[r].publish = None ]_vars

\* A payload of another type that carries a call of a known assistant, and
\* a call.ended payload without a call, were both answered while the tables
\* were empty.
C6_Witness ==
  \E r, s \in Requests :
    /\ Done(r) /\ req[r].payload.type = "status-update" /\ req[r].payload.hasCall
    /\ ~MatchesNoTenant(req[r].payload.assistantId)
    /\ Done(s) /\ req[s].payload.type = "call.ended" /\ ~req[s].payload.hasCall
    /\ req[s].response.error = "Missing call data"
    /\ calls = <<>> /\ jobs = <<>>

\* C7: an execution whose insert was accepted and whose publish failed
\* answers HTTP 200 with received = true and the call id, and the row it
\* inserted is still in the calls table.
C7_RowKeptWhenPublishFails ==
  \A r \in Requests :
    (Done(r) /\ req[r].insert = "ok" /\ req[r].publish = "failed")
    => /\ req[r].response.status = 200
       /\ req[r].response.received
       /\ req[r].response.callId = req[r].payload.id
       /\ \E i \in 1..Len(calls) :
            calls[i] = NewCallRow(req[r].payload, req[r].business)

C7_Witness ==
  \E r \in Requests :
    /\ Done(r) /\ req[r].insert = "ok" /\ req[r].publish = "failed"
    /\ JobsOfCall(req[r].payload.id) = {}
    /\ RowsWithId(req[r].payload.id) # {}

\* C8 (as claimed): processingQueued is true in the response exactly when
\* this execution's publishJob put a job in the queue.
C8_QueuedFlagIsTruthful ==
  \A r \in Requests :
    Done(r) => (req[r].response.processingQueued <=> req[r].publish = "ok")

\* C9: every job in the queue references a call id that has a row, and an
\* execution reaches publishJob only with its insert accepted.
C9_JobOnlyAfterInsert ==
  /\ \A j \in DOMAIN jobs : RowsWithId(jobs[j].callId) # {}
  /\ \A r \in Requests :
       (req[r].pc = "publish" \/ req[r].publish # None) => req[r].insert = "ok"

C9_Witness ==
  \E r \in Requests :
    /\ Done(r) /\ req[r].publish = "ok"
    /\ req[r].jobId \in DOMAIN jobs
    /\ RowsWithId(jobs[req[r].jobId].callId) # {}

\* C10: the step in which the insert fails (datastore error or primary-key
\* conflict) ends the execution with HTTP 200 and an error in the body, and
\* leaves the queue as it was: no publish is attempted.
C10_InsertFailureAcknowledged ==
  [][ \A r \in Requests :
        (req[r].pc = "insert" /\ req'[r].insert \in {"failed", "conflict"})
        => /\ req'[r].pc = "done"
           /\ req'[r].response.status = 200
           /\ req'[r].response.error # None
           /\ req'[r].publish = None
           /\ jobs' = jobs ]_vars

\* An insert failed on a datastore error: the request was answered with the
\* error, and its call id has neither a row nor a job.
C10_Witness ==
  \E r \in Requests :
    /\ Done(r) /\ req[r].insert = "failed"
    /\ req[r].response.error = "Database error"
    /\ RowsWithId(req[r].payload.id) = {}
    /\ JobsOfCall(req[r].payload.id) = {}

\* C11: every row carries the id of the one business whose assistant id is
\* the row's assistant id, and every job carries the call id and the business
\* id of a row, and that row's assistant id.
C11_RowAndJobCarryResolvedTenant ==
  /\ \A i \in 1..Len(calls) :
       \E b \in tenants :
         /\ b.vapi_assistant_id = calls[i].assistant_id
         /\ b.id = calls[i].business_id
         /\ \A c \in tenants : c.vapi_assistant_id = calls[i].assistant_id => c = b
  /\ \A j \in DOMAIN jobs :
       \E i \in 1..Len(calls) :
         /\ calls[i].id = jobs[j].callId
         /\ calls[i].business_id = jobs[j].businessId
         /\ calls[i].assistant_id = jobs[j].assistantId
  /\ \A r \in Requests :
       req[r].insert = "ok" =>
         \E i \in 1..Len(calls) :
           /\ calls[i].id = req[r].payload.id
           /\ calls[i].assistant_id = req[r].payload.assistantId

\* Two events of two different businesses were persisted and enqueued, each
\* under its own business.
C11_Witness ==
  \E i, k \in 1..Len(calls) :
    /\ calls[i].business_id = "demo-001" /\ calls[k].business_id = "biz-2"
    /\ \E j \in DOMAIN jobs : jobs[j].callId = calls[k].id /\ jobs[j].businessId = "biz-2"
    /\ \E j \in DOMAIN jobs : jobs[j].callId = calls[i].id /\ jobs[j].businessId = "demo-001"

\* C13: extractSubdomain gives null for a missing Host header, for localhost
\* and 127.0.0.1 (with or without a port), for fewer than three labels and
\* for a first label among www, api, admin, app; otherwise it gives the first
\* label, whatever the port suffix.
C13_ExtractSubdomain ==
  /\ extractSubdomain(<<"localhost", Colon, "3001">>) = Null
  /\ extractSubdomain(<<"foo", Dot, "example", Dot, "com">>) = <<"foo">>
  /\ extractSubdomain(<<"example", Dot, "com">>) = Null
  /\ extractSubdomain(<<"www", Dot, "example", Dot, "com">>) = Null
  /\ extractSubdomain(<<"a", Dot, "b", Dot, "example", Dot, "com">>) = <<"a">>
  /\ (res.fn = "extractSubdomain" /\ res.pc = "done") =>
       res.subdomain =
         IF res.host = Null THEN Null
         ELSE IF res.labels \in {<<"localhost">>, <<"127", "0", "0", "1">>} THEN Null
         ELSE IF Len(res.labels) < 3 THEN Null
         ELSE IF res.labels[1] \in {"www", "api", "admin", "app"} THEN Null
         ELSE Str(res.labels[1])

\* A host of three labels with a port gave its first label.
C13_Witness ==
  /\ res.fn = "extractSubdomain" /\ res.pc = "done"
  /\ Len(res.labels) = 3 /\ res.port # <<>>
  /\ res.subdomain = <<"foo">>

\* C12 (as claimed): no two businesses share a subdomain, and no two
\* businesses share an assistant id.
C12_TenantKeysUnique ==
  \A a, b \in tenants :
    a # b => /\ a.subdomain # b.subdomain
             /\ a.vapi_assistant_id = None \/ a.vapi_assistant_id # b.vapi_assistant_id

\* C14 (as claimed): when X-Business-ID names a business, getBusinessFromRequest
\* returns that business, whatever the Host header says.
C14_ExplicitIdFirst ==
  [][ ( /\ res' # res
        /\ res'.fn = "getBusinessFromRequest"
        /\ res'.dbOk
        /\ \E b \in tenants : Str(b.id) = res'.xBusinessId )
      => Str(res'.business.id) = res'.xBusinessId ]_vars

\* C14 (amended): getBusinessFromRequest uses the subdomain of the Host header
\* first: when the host gives a non-empty label the result is the business
\* with that subdomain, or null when there is none, whatever X-Business-ID
\* says; only when the host gives no label is X-Business-ID looked up by id;
\* without either, and on a datastore error, the result is null.
C14_SubdomainFirst ==
  [][ (res' # res /\ res'.fn = "getBusinessFromRequest")
      => LET sub == extractSubdomain(res'.host)
             bySubdomain == {b \in tenants : Str(b.subdomain) = sub}
             byId == {b \in tenants : Str(b.id) = res'.xBusinessId}
             found == IF ~res'.dbOk THEN {}
                      ELSE IF sub # Null /\ sub # <<>> THEN bySubdomain
                      ELSE IF res'.xBusinessId # Null /\ res'.xBusinessId # <<>> THEN byId
                      ELSE {}
         IN IF found = {} THEN res'.business = NoBusiness
            ELSE res'.business \in found ]_vars

\* A request for the demo subdomain that carried the id of another existing
\* business was resolved to the demo business.
C14_Witness ==
  /\ res.fn = "getBusinessFromRequest" /\ res.pc = "done"
  /\ res.subdomain = <<"demo">>
  /\ res.xBusinessId = <<"biz-2">>
  /\ \E b \in tenants : b.id = "biz-2"
  /\ res.business.id = "demo-001"

\* C15: a call of a resolution function leaves the businesses table as it
\* was and returns; it returns null when the datastore reports an error and
\* when no business has the subdomain or the assistant id asked for, and
\* otherwise a row of the table.
C15_ResolutionIsPureRead ==
  [][ res' # res
      => /\ tenants' = tenants
         /\ ~res'.threw
         /\ res'.business = NoBusiness \/ res'.business \in tenants
         /\ ~res'.dbOk => res'.business = NoBusiness
         /\ ( /\ res'.fn \in {"getBusinessBySubdomain", "resolveBusinessFromSubdomain"}
              /\ \A b \in tenants : Str(b.subdomain) # res'.subdomain )
            => res'.business = NoBusiness
         /\ ( /\ res'.fn = "getBusinessByAssistantId"
              /\ \A b \in tenants : b.vapi_assistant_id # res'.assistantId )
            => res'.business = NoBusiness ]_vars

\* getBusinessBySubdomain returned null for the subdomain of an existing
\* business because the datastore reported an error.
C15_Witness ==
  /\ res.fn = "getBusinessBySubdomain" /\ res.pc = "done"
  /\ ~res.dbOk
  /\ \E b \in tenants : Str(b.subdomain) = res.subdomain
  /\ res.business = NoBusiness /\ ~res.threw

(***************************************************************************)
(* Properties of the queue.                                                *)
(***************************************************************************)

\* The job j of the queue is in state s and moves to state t in this step.
Moves(j, s, t) ==
  /\ j \in DOMAIN jobs /\ jobs[j].state = s
  /\ j \in DOMAIN jobs' /\ jobs'[j].state = t

\* C16: a job enters the queue waiting and only moves waiting -> active,
\* active -> completed, or active -> failed attempt; a failed attempt goes
\* back to waiting (through its backoff delay) only while fewer than 3
\* attempts were made, and at 3 attempts the job is terminally failed;
\* completed and failed jobs move no further.
C16_JobLifecycle ==
  [][ /\ \A j \in DOMAIN jobs' \ DOMAIN jobs : jobs'[j].state = "waiting"
      /\ \A j \in DOMAIN jobs \cap DOMAIN jobs' :
           \/ jobs'[j].state = jobs[j].state
           \/ Moves(j, "waiting", "active")
           \/ Moves(j, "active", "completed")
           \/ Moves(j, "active", "delayed") /\ jobs'[j].attemptsMade < 3
           \/ Moves(j, "active", "failed") /\ jobs'[j].attemptsMade = 3
           \/ Moves(j, "delayed", "waiting") /\ jobs[j].attemptsMade < 3
      /\ \A j \in DOMAIN jobs :
           jobs[j].state = "active" /\ jobs[j].attemptsMade + 1 >= 3
             => j \in DOMAIN jobs' /\ jobs'[j].state \in {"active", "completed", "failed"}
    ]_vars

\* A job completed on the attempt that followed a failed one.
C16_Witness ==
  \E j \in DOMAIN jobs : jobs[j].state = "completed" /\ jobs[j].attemptsMade = 2

\* The attempts of a job that were started.
AttemptsStarted(job) == job.attemptsMade + (IF job.state = "active" THEN 1 ELSE 0)

\* C17: a job is attempted at most 3 times; when its third attempt fails it
\* is terminally failed, and a terminally failed job is never attempted
\* again and never leaves the queue.
C17_ThreeAttemptsThenKept ==
  [][ /\ \A j \in DOMAIN jobs' : AttemptsStarted(jobs'[j]) <= 3
      /\ \A j \in DOMAIN jobs :
           /\ jobs[j].state = "active" /\ jobs[j].attemptsMade = 2
                => /\ j \in DOMAIN jobs'
                   /\ jobs'[j].state \in {"active", "completed", "failed"}
           /\ jobs[j].state = "failed"
                => j \in DOMAIN jobs' /\ jobs'[j] = jobs[j]
      /\ \A j \in DOMAIN jobs' :
           jobs'[j].state = "failed" => jobs'[j].attemptsMade = 3
    ]_vars

\* A job failed for the third time and is in the queue, terminally failed.
C17_Witness ==
  \E j \in DOMAIN jobs :
    /\ jobs[j].state = "failed" /\ jobs[j].attemptsMade = 3
    /\ jobs[j].finishedOn = now

\* C18: after its k-th failed attempt a job is delayed by 5000 * 2^(k-1) ms
\* from the failure, and it stays delayed, neither waiting nor active, until
\* that delay has elapsed.
C18_ExponentialBackoff ==
  [][ /\ \A j \in DOMAIN jobs' :
           jobs'[j].state = "delayed"
             => /\ jobs'[j].attemptsMade \in {1, 2}
                /\ jobs'[j].delay = IF jobs'[j].attemptsMade = 1 THEN 5000 ELSE 10000
                /\ jobs'[j].delay = 5000 * Pow2(jobs'[j].attemptsMade - 1)
      /\ \A j \in DOMAIN jobs \cap DOMAIN jobs' :
           /\ Moves(j, "active", "delayed")
                => jobs'[j].delayedUntil = now + jobs'[j].delay
           /\ jobs[j].state = "delayed" /\ jobs'[j].state # "delayed"
                => jobs'[j].state = "waiting" /\ now >= jobs[j].delayedUntil
      /\ \A j \in DOMAIN jobs : jobs[j].state = "delayed" => j \in DOMAIN jobs'
    ]_vars

\* A job that failed twice sits out the second half of its 10000 ms delay.
C18_Witness ==
  \E j \in DOMAIN jobs :
    /\ jobs[j].state = "delayed" /\ jobs[j].attemptsMade = 2
    /\ jobs[j].delay = 10000
    /\ now = jobs[j].delayedUntil - 5000

\* The counts of a returned stats object that the job j was part of.
CountedIn(s, j) == {type \in {"waiting", "active", "completed", "failed", "delayed"} :
                      <<j, type>> \in s.counted}

\* C19: when getQueueStats returns its counts, every job that is terminally
\* failed (3 attempts made) is part of failed and of neither waiting nor
\* active, and every job is part of at most one of the five counts.
C19_CountedOnceFailedInFailed ==
  [][ stats.result = "pending" /\ stats'.result = "stats"
        => /\ \A j \in DOMAIN jobs' :
                jobs'[j].state = "failed" /\ jobs'[j].attemptsMade = 3
                  => /\ "failed" \in CountedIn(stats', j)
                     /\ "waiting" \notin CountedIn(stats', j)
                     /\ "active" \notin CountedIn(stats', j)
           /\ \A j \in DOMAIN jobs' : Cardinality(CountedIn(stats', j)) <= 1
    ]_vars

\* C20 as stated: a failed job is never removed; every job that is removed
\* was a completed one; at all times the queue keeps at most 1000 completed
\* jobs and no completed job that finished more than 24 hours ago.
C20_RetainedWithinCapsAlways ==
  [][ /\ \A j \in DOMAIN jobs :
           jobs[j].state = "failed" => j \in DOMAIN jobs' /\ jobs'[j] = jobs[j]
      /\ \A j \in DOMAIN jobs \ DOMAIN jobs' : jobs[j].state = "completed"
      /\ Cardinality(JobsInState(jobs', "completed")) <= 1000
      /\ \A k \in JobsInState(jobs', "completed") :
           now' - jobs'[k].finishedOn <= 24 * 60 * 60 * 1000
    ]_vars

\* C20, amended: a failed job is never removed, neither when a job completes
\* nor by removeOnComplete nor by cleanupQueue; every job that is removed was
\* a completed one; the queue never keeps more than 1000 completed jobs, and
\* once a job has completed or cleanupQueue has run it keeps no completed
\* job that finished more than 24 hours ago.
C20_OnlyCompletedRemovedWithinCaps ==
  [][ /\ \A j \in DOMAIN jobs :
           jobs[j].state = "failed" => j \in DOMAIN jobs' /\ jobs'[j] = jobs[j]
      /\ \A j \in DOMAIN jobs \ DOMAIN jobs' : jobs[j].state = "completed"
      /\ Cardinality(JobsInState(jobs, "completed")) <= 1000
      /\ Cardinality(JobsInState(jobs', "completed")) <= 1000
      /\ \/ cleanupQueue
         \/ \E j \in DOMAIN jobs : Moves(j, "active", "completed")
         => \A k \in JobsInState(jobs', "completed") :
              now - jobs'[k].finishedOn <= 24 * 60 * 60 * 1000
    ]_vars

\* The queue held 1000 completed jobs and a failed one; one more job
\* completed: the oldest completed job is gone, 1000 are kept and the failed
\* job is still there.
C20_Witness ==
  /\ \E j \in DOMAIN jobs \ Backlog : jobs[j].state = "completed"
  /\ Cardinality(JobsInState(jobs, "completed")) = 1000
  /\ JobId("c1", 1500) \notin DOMAIN jobs
  /\ \E j \in FailedBacklog : j \in DOMAIN jobs /\ jobs[j].state = "failed"

\* C21: a stats object returned by getQueueStats has the six fields waiting,
\* active, completed, failed, delayed and total, each a count, and total is
\* the sum of the other five.
C21_TotalIsSumOfCounts ==
  stats.result = "stats"
    => /\ {"waiting", "active", "completed", "failed", "delayed", "total"}
            \subseteq DOMAIN stats
       /\ \A field \in {"waiting", "active", "completed", "failed", "delayed", "total"} :
            stats[field] \in Nat
       /\ stats.total = stats.waiting + stats.active + stats.completed
                          + stats.failed + stats.delayed

\* Stats were returned for a queue with a delayed job and another job.
C21_Witness ==
  /\ stats.result = "stats"
  /\ stats.delayed = 1
  /\ stats.total = 2

(***************************************************************************)
(* Properties of getQueueStats and the monitoring endpoints.               *)
(***************************************************************************)

\* C22: a getQueueStats call never runs longer than 3000 ms; it always
\* completes, with the stats or with null and never by throwing; and when
\* it completes without all five answers (broker unreachable or silent) it
\* returns null.
C22_NullWithinTimeout ==
  /\ [](stats.result = "pending" => stats.elapsed <= 3000)
  /\ [](stats.result \in {None, "pending", "stats", "null"})
  /\ [][ stats.result = "pending" /\ stats'.result # "pending"
           => /\ stats.elapsed <= 3000
              /\ stats.next <= 5 => stats'.result = "null"
       ]_vars
  /\ (stats.result = "pending" ~> stats.result \in {"stats", "null"})

\* The broker did not answer all five queries: null was returned when
\* 3000 ms had gone by, to a handler that awaits it.
C22_Witness ==
  /\ stats.result = "null"
  /\ stats.elapsed = 3000
  /\ http.pc = "awaiting"

\* C23: /health answers 200; its status is 'healthy' exactly when
\* getQueueStats returned stats and 'degraded' exactly when it returned
\* null, and then queue is an error object and checks.redis is false.
C23_HealthAlways200 ==
  [][ http.pc = "awaiting" /\ http'.pc = "done" /\ http.route = "/health"
        => /\ http'.status = 200
           /\ http'.body.status \in {"healthy", "degraded"}
           /\ http'.body.status = "healthy" <=> stats.result = "stats"
           /\ http'.body.status = "degraded" <=> stats.result = "null"
           /\ stats.result = "stats"
                => /\ http'.body.queue = StatsObject(stats)
                   /\ http'.body.checks.redis = TRUE
           /\ stats.result = "null"
                => /\ DOMAIN http'.body.queue = {"error"}
                   /\ http'.body.checks.redis = FALSE
    ]_vars

\* /health answered 200 and 'degraded' after getQueueStats returned null.
C23_Witness ==
  /\ http.route = "/health" /\ http.pc = "done"
  /\ http.status = 200
  /\ http.body.status = "degraded"
  /\ stats.result = "null"

\* C24: the job id is a function of the call id and the enqueue instant,
\* and two enqueues get the same job id exactly when they have the same call
\* id and the same instant; enqueues for different call ids get different
\* job ids.
C24_JobIdInjective ==
  res.pc = "done" /\ res.fn = "publishJob"
    => LET first == res.enqueues[1]
           second == res.enqueues[2]
       IN /\ Cardinality(DOMAIN jobs) = 1
               <=> first.callId = second.callId /\ first.t = second.t
          /\ first.callId # second.callId => Cardinality(DOMAIN jobs) = 2
          /\ \A j \in DOMAIN jobs :
               \E input \in {first, second} :
                 /\ jobs[j].callId = input.callId
                 /\ j = input.callId \o <<"-">> \o Digits(input.t)

\* Two enqueues whose call id and instant, written one after the other,
\* read the same ("c1", 1 and "c", 11) got two job ids.
C24_Witness ==
  /\ res.pc = "done" /\ res.fn = "publishJob"
  /\ res.enqueues[1] = [callId |-> <<"c", "1">>, t |-> 1]
  /\ res.enqueues[2] = [callId |-> <<"c">>, t |-> 11]
  /\ Cardinality(DOMAIN jobs) = 2

(***************************************************************************)
(* Properties of the analysis fields and of the pipeline.                  *)
(***************************************************************************)

\* The row of a call, when the table has one.
RowsOfCall(id) == {i \in 1..Len(calls) : calls[i].id = id}

\* C25: every row a step adds to the calls table has its six analysis
\* fields null when it is added, also when the call object of the payload
\* carries values under the names of those fields.
C25_AnalysisNullAtCreation ==
  [][\A i \in 1..Len(calls') : i > Len(calls) => Pending(calls'[i])]_vars

\* A row was inserted for a payload that carried analysis values, and its
\* analysis fields are null.
C25_Witness ==
  \E r \in Requests :
    /\ req[r].insert = "ok"
    /\ req[r].payload.analysis = PayloadAnalysis
    /\ \E i \in RowsOfCall(req[r].payload.id) : Pending(calls[i])

\* The analysis fields of a row, as one block.
AnalysisBlock(row) == [field \in AnalysisFields |-> row[field]]

Populated(row) == \A field \in AnalysisFields : row[field] # NULL

C27_RowsUnchanged ==
  [][/\ Len(calls') >= Len(calls)
     /\ \A i \in 1..Len(calls) :
          /\ calls'[i].id = calls[i].id
          /\ calls'[i].business_id = calls[i].business_id
          /\ calls'[i].assistant_id = calls[i].assistant_id
          /\ calls'[i] = calls[i]]_vars

\* The row of "c1" exists after a redelivery was turned down, and /health
\* has answered with the job of the call counted.
C27_Witness ==
  /\ RowsOfCall("c1") # {}
  /\ \A i \in RowsOfCall("c1") : calls[i].business_id = "demo-001"
  /\ \E r \in Requests : req[r].insert = "conflict"
  /\ http.route = "/health" /\ http.pc = "done"
  /\ http.body.checks.redis /\ http.body.queue.waiting = 1

\* C28: with the worker taking the jobs that wait, the analysis settling
\* and the broker's timers firing, every job that was published comes to be
\* completed or failed for good; so no job is waiting, delayed or active for
\* ever.  An analysis that fails marks the job failed, which sets it back
\* for a further attempt or, after the last attempt, leaves it failed.
C28_EveryJobSettles ==
  \A j \in QueueJobIds :
    (j \in DOMAIN jobs)
      ~> (j \in DOMAIN jobs /\ jobs[j].state \in {"completed", "failed"})

\* A job has failed for good after three failed analyses.
C28_Witness ==
  \E j \in DOMAIN jobs :
    /\ jobs[j].state = "failed"
    /\ jobs[j].attemptsMade = 3
    /\ jobs[j].finishedOn = j[2] + 15000

\* The values getDefaultAnalysis would put in the columns of a row.
HoldsDefaultAnalysis(row) ==
  /\ row.sentiment_score = Value(getDefaultAnalysis.sentiment_score)
  /\ row.products_mentioned = Value(getDefaultAnalysis.products_mentioned)
  /\ row.issues_identified = Value(getDefaultAnalysis.issues_identified)
  /\ row.opportunity_value = Value(getDefaultAnalysis.opportunity_value)

\* C29: a failed analysis writes nothing.  A row whose call has no completed
\* job has all its analysis fields null, so the row of a call whose job
\* failed at every attempt stays null; no row is filled in part, no row
\* holds the values of the default analysis, and the step that marks a job
\* failed or sets it back for a retry leaves the table as it is.
C29_FailedAnalysisWritesNothing ==
  /\ [](\A i \in 1..Len(calls) :
          /\ JobsInState(jobs, "completed") \cap JobsOfCall(calls[i].id) = {}
               => Pending(calls[i])
          /\ Pending(calls[i]) \/ Populated(calls[i])
          /\ ~HoldsDefaultAnalysis(calls[i]))
  /\ [][\A j \in DOMAIN jobs :
          Moves(j, "active", "delayed") \/ Moves(j, "active", "failed")
            => calls' = calls]_vars

\* The job of "c1" has failed three times and is failed for good; the call
\* has no other job, and its row has its analysis fields null.
C29_Witness ==
  /\ JobsOfCall("c1") # {}
  /\ \A j \in JobsOfCall("c1") : jobs[j].state = "failed" /\ jobs[j].attemptsMade = 3
  /\ RowsOfCall("c1") # {}
  /\ \A i \in RowsOfCall("c1") : Pending(calls[i])

\* C30: the handler does not analyse and does not wait for the job.  Its
\* steps leave the analysis fields of every row as they are and add rows
\* with null analysis only; when it answers after a publish, the job it
\* published is waiting and no attempt at it has been made; an answer, once
\* given, stays as it is whatever becomes of the job; and an execution that
\* has begun its insert answers even if the worker never takes a job.
C30_ResponseIndependentOfJob ==
  /\ [][\A r \in Requests :
          /\ req'[r] # req[r] =>
               /\ \A i \in 1..Len(calls) : calls'[i] = calls[i]
               /\ \A i \in 1..Len(calls') : i > Len(calls) => Pending(calls'[i])
          /\ (req[r].pc # "done" /\ req'[r].pc = "done" /\ req'[r].publish = "ok") =>
               /\ req'[r].jobId \in DOMAIN jobs'
               /\ jobs'[req'[r].jobId].state = "waiting"
               /\ jobs'[req'[r].jobId].attemptsMade = 0
               /\ req'[r].response =
                     SuccessResponse(req'[r].payload.id, req'[r].business.id)
          /\ req[r].pc = "done" => req'[r] = req[r]]_vars
  /\ \A r \in Requests : (req[r].pc \in {"insert", "publish"}) ~> (req[r].pc = "done")

\* The handler has answered that processing is queued; the job it published
\* has since failed at all three attempts, and the answer stands.
C30_Witness ==
  \E r \in Requests :
    /\ req[r].pc = "done"
    /\ req[r].publish = "ok"
    /\ req[r].response = SuccessResponse("c1", "demo-001")
    /\ req[r].jobId \in DOMAIN jobs
    /\ jobs[req[r].jobId].state = "failed"
    /\ jobs[req[r].jobId].attemptsMade = 3

(***************************************************************************)
(* Properties of the webhook's signature, of concurrent deliveries and of  *)
(* publishJob called twice.                                                *)
(***************************************************************************)

\* C32, as claimed: a request whose X-Vapi-Signature header is absent or is
\* not the signature of its body inserts no row and publishes no job.
C32_UnsignedNotPersisted ==
  \A r \in Requests :
    req[r].payload.signature \in {"absent", "forged"}
      => req[r].insert # "ok" /\ req[r].publish # "ok"

\* C33: however the steps of handler executions interleave, the table holds
\* at most one row per call id and the queue at most one job per call id,
\* and every execution that has finished answered with HTTP 200.  A step
\* of an execution leaves the rows and the jobs of every other call id as
\* they are.
C33_ConcurrentDeliveries ==
  /\ [](\A c \in CallIds :
          /\ Cardinality(RowsWithId(c)) <= 1
          /\ Cardinality(JobsOfCall(c)) <= 1)
  /\ [](\A r \in Requests : req[r].pc = "done" => req[r].response.status = 200)
  /\ [][\A r \in Requests :
          req'[r] # req[r] =>
            /\ \A i \in 1..Len(calls) :
                 calls[i].id # req'[r].payload.id => calls'[i] = calls[i]
            /\ \A j \in DOMAIN jobs :
                 jobs[j].callId # req'[r].payload.id
                   => j \in DOMAIN jobs' /\ jobs'[j] = jobs[j]
            /\ \A j \in DOMAIN jobs' \ DOMAIN jobs :
                 jobs'[j].callId = req'[r].payload.id]_vars

\* Two executions carry the same call id; the one that arrived second has
\* inserted the row while the first still awaits its insert.
C33_Witness ==
  \E r, s \in Requests :
    /\ r < s
    /\ req[r].payload.id = req[s].payload.id
    /\ req[r].pc = "insert"
    /\ req[s].pc = "publish" /\ req[s].insert = "ok"
    /\ Cardinality(RowsWithId(req[r].payload.id)) = 1

\* C34: two calls of publishJob for the same call id leave two jobs in the
\* queue when their instants differ and one job when their instants are
\* the same; either way both calls return, each the id of a job the queue
\* holds for the call, the same id exactly when the instants are the same.
C34_TwoPublishesOfOneCall ==
  (res.pc = "done" /\ res.fn = "publishJob"
     /\ res.enqueues[1].callId = res.enqueues[2].callId)
    => LET callId == res.enqueues[1].callId
           same == res.enqueues[1].t = res.enqueues[2].t
       IN /\ Cardinality(DOMAIN jobs) = IF same THEN 1 ELSE 2
          /\ Len(res.returned) = 2
          /\ \A k \in 1..2 :
               /\ res.returned[k] \in DOMAIN jobs
               /\ jobs[res.returned[k]].callId = callId
               /\ jobs[res.returned[k]].state = "waiting"
          /\ (res.returned[1] = res.returned[2]) <=> same

\* publishJob was called for "c1" at 1 and at 11: the queue holds two jobs
\* and the calls returned their ids.
C34_Witness ==
  /\ res.pc = "done" /\ res.fn = "publishJob"
  /\ res.enqueues[1] = [callId |-> <<"c", "1">>, t |-> 1]
  /\ res.enqueues[2] = [callId |-> <<"c", "1">>, t |-> 11]
  /\ DOMAIN jobs = {<<"c", "1", "-", "1">>, <<"c", "1", "-", "1", "1">>}
  /\ res.returned = <<<<"c", "1", "-", "1">>, <<"c", "1", "-", "1", "1">>>>

(***************************************************************************)
(* Properties of the dashboard routes, of static files and of the          *)
(* analyzer.                                                               *)
(***************************************************************************)

\* C35: when the Host header carries a subdomain, what a dashboard route
\* answers is the same for every X-Business-ID header the client may send,
\* and a dashboard it serves is that of the business with the subdomain,
\* also through /demo; when the Host header carries no subdomain, / and
\* /dashboard answer with the landing page and with no business.
C35_HeaderCannotChooseTenant ==
  [][(http' # http /\ http'.pc = "done" /\ http'.route \in DashboardRoutes)
       => LET page == http'.body.page
              subdomain == extractSubdomain(res'.host)
          IN /\ ~Falsy(subdomain) =>
                  /\ \A x \in XBusinessIds :
                       FetchDashboard(http'.route, res'.host, x, res'.dbOk,
                                      http'.body.fileOk, http'.body.requestOk) = page
                  /\ page.kind = "dashboard" =>
                       /\ page.business \in tenants
                       /\ Str(page.business.subdomain) = subdomain
             /\ (Falsy(subdomain) /\ http'.route \in {"/", "/dashboard"}) =>
                  page = Page(200, "landing", NoBusiness)]_vars

\* The host is that of the demo business, the client sent the id of another
\* business that exists, and the dashboard served is the demo business's.
C35_Witness ==
  /\ http.pc = "done" /\ http.route = "/dashboard"
  /\ res.host = HostString(<<"demo", "example", "com">>, <<>>)
  /\ res.xBusinessId = <<"biz-2">>
  /\ \E b \in tenants : b.id = "biz-2"
  /\ http.body.page.kind = "dashboard"
  /\ http.body.page.business = DemoBusiness

\* C36: serveStaticFile always answers, with 403, 404 or 200.  For a
\* pathname with '..' in it the answer is 403 and no file is read; for any
\* other pathname whose file cannot be read the answer is 404; and an
\* answer of 200 carries the content of a file under the public directory,
\* the one the pathname names there.
C36_StaticFilesStayInPublic ==
  (http.pc = "done" /\ http.route = "static")
    => LET pathname == http.body.pathname
           response == http.body.response
           dotdot == \E i \in 1..(Len(pathname) - 1) :
                       pathname[i] = "." /\ pathname[i + 1] = "."
       IN /\ response.status \in {200, 403, 404}
          /\ dotdot => response.status = 403 /\ response.read = <<>>
          /\ (~dotdot /\ (~http.body.readOk \/ response.read \notin DOMAIN Files))
               => response.status = 404
          /\ response.status = 200 =>
               /\ response.read \in DOMAIN Files
               /\ IsUnder(PublicDir, response.read)
               /\ response.body = Files[response.read]

\* "/../a" names the file beside the public directory, which exists: the
\* answer is 403 and nothing was read.
C36_Witness ==
  /\ http.pc = "done" /\ http.route = "static"
  /\ http.body.pathname = <<"/", ".", ".", "/", "a">>
  /\ http.body.readOk
  /\ http.status = 403
  /\ http.body.response.read = <<>>

\* A value in which parseInt and parseFloat find no number.
NoNumberIn(x) ==
  \/ x.type \in {"undefined", "null", "boolean", "string", "object"}
  \/ x.type = "array" /\ (x.v = <<>> \/ Head(x.v).type \in {"null", "string"})

\* list holds the strings of the raw list, and nothing else.
OnlyStringsOf(rawList, list) ==
  IF rawList.type # "array" THEN list = <<>>
  ELSE /\ Len(list) = Cardinality({j \in DOMAIN rawList.v : rawList.v[j].type = "string"})
       /\ \A i \in DOMAIN list :
            \E j \in DOMAIN rawList.v :
              rawList.v[j].type = "string" /\ rawList.v[j].v = list[i]

\* C37: for every raw response, normalizeAnalysis returns opportunity_value
\* as a whole number from 0 to 100, 0 when the raw value is missing or holds
\* no number; sentiment_score from -1 to 1; sentiment_label one of positive,
\* neutral, negative; products_mentioned and issues_identified as lists of
\* strings only; and when the raw label is absent or not one of the three,
\* the label is positive for a score above 0.3, negative for a score below
\* -0.3 and neutral otherwise.
C37_AnalysisNormalized ==
  (http.pc = "done" /\ http.route = "normalizeAnalysis")
    => LET raw == http.body.raw
           analysis == http.body.analysis
           labelGiven == /\ raw.sentiment_label.type = "string"
                         /\ raw.sentiment_label.v \in {"positive", "neutral", "negative"}
       IN /\ analysis.opportunity_value % 100 = 0
          /\ analysis.opportunity_value >= 0 /\ analysis.opportunity_value <= 10000
          /\ NoNumberIn(raw.opportunity_value) => analysis.opportunity_value = 0
          /\ analysis.sentiment_score >= -100 /\ analysis.sentiment_score <= 100
          /\ analysis.sentiment_label \in {"positive", "neutral", "negative"}
          /\ OnlyStringsOf(raw.products_mentioned, analysis.products_mentioned)
          /\ OnlyStringsOf(raw.issues_identified, analysis.issues_identified)
          /\ ~labelGiven =>
               analysis.sentiment_label =
                 IF analysis.sentiment_score > 30 THEN "positive"
                 ELSE IF analysis.sentiment_score < -30 THEN "negative"
                 ELSE "neutral"

\* An opportunity value of 45.7 becomes 45, and a score of 0.31 without a
\* label is positive.
C37_Witness ==
  /\ http.pc = "done" /\ http.route = "normalizeAnalysis"
  /\ http.body.raw.opportunity_value = Json("number", 4570)
  /\ http.body.analysis.opportunity_value = 4500
  /\ http.body.raw.sentiment_score = Json("number", 31)
  /\ http.body.raw.sentiment_label = Undefined
  /\ http.body.analysis.sentiment_label = "positive"

\* C38: batchAnalyzeCalls never throws when the analysis of a call fails; at
\* most concurrency calls are in flight at a time; and what it returns has one
\* result for each input call, in the order of the input: the default
\* analysis with an error field for a call whose analysis failed, the
\* analysis without an error field for a call whose analysis succeeded.
C38_BatchOneResultPerCall ==
  http.route = "batchAnalyzeCalls"
    => LET b == http.body
       IN /\ http.pc # "threw"
          /\ Cardinality({k \in DOMAIN b.batch : b.batch[k].state = "pending"})
               <= b.concurrency
          /\ Len(b.batch) <= b.concurrency
          /\ http.pc = "returned" =>
               /\ Len(b.results) = Len(b.calls)
               /\ \A k \in DOMAIN b.calls :
                    /\ b.results[k].id = b.calls[k].id
                    /\ b.outcomes[k] \in {"threw", "analysed"}
                    /\ b.outcomes[k] = "threw" =>
                         /\ "error" \in DOMAIN b.results[k]
                         /\ b.results[k].analysis = getDefaultAnalysis
                    /\ b.outcomes[k] = "analysed" => "error" \notin DOMAIN b.results[k]

\* Three calls, two at a time, were analysed in two batches: the analysis of
\* the second failed, that of the others succeeded, and all three results
\* are returned.
C38_Witness ==
  /\ http.route = "batchAnalyzeCalls" /\ http.pc = "returned"
  /\ http.body.concurrency = 2
  /\ Len(http.body.calls) = 3
  /\ http.body.calls[1].id # http.body.calls[2].id
  /\ http.body.outcomes = <<"analysed", "threw", "analysed">>
  /\ Len(http.body.results) = 3

=============================================================================
